---- MODULE Spec2Model ----
(***************************************************************************)
(* State-machine model of the STINGER utility kernels of                   *)
(* src/lib/stinger_utils/src/stinger_utils.c: the parallel prefix sum, the *)
(* pair sorts, the edge-list to CSR conversion, the CSR extraction and the *)
(* in-place adjacency sort.  Every kernel has its own specification; the   *)
(* variables of the other kernels stay at their idle values.               *)
(***************************************************************************)
EXTENDS Integers, Sequences, FiniteSets, TLC

VARIABLES
  \* ---- prefix_sum (OpenMP build) ----
  n,        \* array size argument
  nt,       \* omp_get_num_threads ()
  ary,      \* the array, 0-indexed
  ary0,     \* the array as passed in (history, to state the result)
  buf,      \* the shared slice-sum buffer
  t1,       \* per worker: slice offset read from buf
  k,        \* per worker: loop index of the final phase
  acc,      \* per worker: value loaded by a pending `+=`
  ret,      \* per worker: returned value
  pcPS,     \* per worker: position inside prefix_sum
  \* ---- radix_sort_pairs ----
  x,        \* the caller's array of words, 0-indexed
  x0,       \* the array as passed in (history, to state the result)
  length,   \* number of words (2 per pair)
  numBits,  \* bits per radix digit
  copy1,    \* scratch array holding the current order
  copy2,    \* scratch array the pass scatters into
  max,      \* loop control of the digit passes
  min,      \* shift that makes the second elements non-negative
  denShift, \* bit position of the current digit
  pcRS,     \* position inside radix_sort_pairs
  \* ---- bucket_sort_pairs ----
  array,    \* the caller's array of words, 0-indexed
  array0,   \* the array as passed in (history, to state the result)
  num,      \* number of pairs
  tmp,      \* scratch array the pairs are scattered into
  start,    \* the block of range+2 bucket cursors
  bsMin,    \* min: smallest key
  bsMax,    \* max: largest key
  index,    \* per scatter iteration: the slot it claimed
  pcBS,     \* per scatter iteration: position inside the loop body
  phBS,     \* position inside bucket_sort_pairs
  \* ---- edge_list_to_csr ----
  nv,       \* number of vertices
  ne,       \* number of edges
  sv1,      \* input: source vertices
  ev1,      \* input: destination vertices
  w1,       \* input: weights
  timeRecent, \* input: timestamps, or NULL
  timeFirst,  \* input: timestamps, or NULL
  ev2,      \* output: destination vertices
  w2,       \* output: weights
  elT2,     \* output t2: timeRecent
  elT1,     \* output t1: timeFirst
  offsets,  \* the caller's offset block of nv+2 words
  elIndex,  \* per scatter iteration: the index it claimed
  pcEL,     \* per loop iteration: position inside the loop body
  phEL,     \* position inside edge_list_to_csr
  \* ---- stinger_sort_edge_list ----
  STINGER_EDGEBLOCKSIZE, \* slots per edge block (fixed per build)
  ebpool,   \* the edge block pool; block 0 is the chain terminator
  ebpool0,  \* the pool at the call (history, to state the result)
  vertexEdges, \* stinger_vertex_edges_get (vertices, srcvtx): first block
  type,     \* the edge type argument
  seStart,  \* start: first block of the type
  sorted,   \* the loop flag
  pcSE,     \* position inside stinger_sort_edge_list
  \* ---- stinger_to_unsorted_csr / stinger_to_sorted_csr ----
  adj,      \* the store: per vertex the slots of its chain, in chain order
  outdeg,   \* the store: per vertex the out-degree counter
  want,     \* the metadata arrays the caller requested (non-NULL *_out)
  off,      \* the offset array
  ind,      \* the neighbour array, NULL before it is allocated
  meta,     \* the requested metadata arrays, by name
  csrI,     \* index of the degree loop
  degRead,  \* per vertex: the degree read in the first loop (history)
  gathered, \* per vertex: d, the count stinger_gather_successors reported
  pcG,      \* per vertex: position of its gather iteration
  pcS,      \* per vertex: position of its sort iteration
  unsorted, \* the arrays as stinger_to_unsorted_csr returned them (history)
  mutated,  \* a mutator changed the store during the extraction (history)
  touched,  \* vertices changed between their degree read and their gather
  pcCSR,    \* position inside the extraction
  \* ---- counting_sort ----
  cntArray,  \* array: the caller's array of num items of size 1
  cntArray0, \* the array at the call (history, to state the result)
  cntNum,    \* num
  cntMin,    \* min
  cntMax,    \* max
  cntRange,  \* range, an int
  cntCount,  \* count: the histogram
  accessed,  \* indexes of array[] read or written so far (history)
  pcCnt,    \* position inside counting_sort
  \* ---- find_in_sorted ----
  tofind,    \* the value looked for
  N,         \* the array length argument
  fsAry,     \* ary: the sorted array
  top,       \* upper end of the range still searched
  bot,       \* lower end of the range still searched
  out,       \* the value returned
  pcFS,     \* position inside find_in_sorted
  \* ---- i64_cmp ----
  va,        \* *a
  vb,        \* *b
  icRet,     \* the int returned
  pcIC,     \* position: before or after the call of i64_cmp
  \* ---- snarf_graph ----
  sgFile,    \* the graph file: its whole 64-bit words, each as 8 bytes
  sgTail,    \* the number of bytes of the file after its last whole word
  sz,        \* the size stat reported, in bytes
  mem,       \* the block the file is read into
  sgNv,      \* nv
  sgNe,      \* ne
  sgViews,   \* *off_out, *ind_out, *weight_out as indexes into mem
  pcSG,     \* position inside snarf_graph
  \* ---- random edge generator, main ----
  batch_size,  \* -x
  num_batches, \* -y, -1 when not given
  genNv,     \* nv: -n
  batch_num, \* the batch counter
  line,      \* the insertion counter, used as insertion time
  sent,      \* the messages sent on the connection, in order (history)
  pcGen,    \* position inside main
  \* parse_args (stinger_utils.c lines 56-108)
  argc,                \* number of arguments, the program name included
  argv,                \* the arguments, argv[0] of the code first
  paK,                 \* k, the index of the argument examined
  seen_batch,          \* 1 once --batch or -b was met
  seen_nbatch,         \* 1 once --num-batches or -n was met
  paBatchSize,         \* <<v>> once v was stored into *batch_size
  paNbatch,            \* <<v>> once v was stored into *nbatch
  initial_graph_name,  \* <<s>> once s was stored into *initial_graph_name
  action_stream_name,  \* <<s>> once s was stored into *action_stream_name
  pcPA                 \* position in parse_args

psVars == <<n, nt, ary, ary0, buf, t1, k, acc, ret, pcPS>>
rsVars == <<x, x0, length, numBits, copy1, copy2, max, min, denShift, pcRS>>

bsVars == <<array, array0, num, tmp, start, bsMin, bsMax, index, pcBS, phBS>>

elVars == <<nv, ne, sv1, ev1, w1, timeRecent, timeFirst, ev2, w2, elT2, elT1,
            offsets, elIndex, pcEL, phEL>>

seVars == <<STINGER_EDGEBLOCKSIZE, ebpool, ebpool0, vertexEdges, type, seStart,
            sorted, pcSE>>

csrVars == <<adj, outdeg, want, off, ind, meta, csrI, degRead, gathered, pcG,
             pcS, unsorted, mutated, touched, pcCSR>>

cntVars == <<cntArray, cntArray0, cntNum, cntMin, cntMax, cntRange, cntCount, accessed, pcCnt>>

fsVars == <<tofind, N, fsAry, top, bot, out, pcFS>>

icVars == <<va, vb, icRet, pcIC>>

sgVars == <<sgFile, sgTail, sz, mem, sgNv, sgNe, sgViews, pcSG>>

genVars == <<batch_size, num_batches, genNv, batch_num, line, sent, pcGen>>

paVars == <<argc, argv, paK, seen_batch, seen_nbatch, paBatchSize, paNbatch, initial_graph_name, action_stream_name, pcPA>>

vars == <<psVars, rsVars, bsVars, elVars, seVars, csrVars, cntVars, fsVars, icVars, sgVars, genVars, paVars>>

Idle == "idle"

(* The values the variables of a kernel hold while another kernel runs. *)
PsIdle ==
  /\ n = 0 /\ nt = 0 /\ ary = <<>> /\ ary0 = <<>> /\ buf = <<>>
  /\ t1 = <<>> /\ k = <<>> /\ acc = <<>> /\ ret = <<>> /\ pcPS = <<>>

RsIdle ==
  /\ x = <<>> /\ x0 = <<>> /\ length = 0 /\ numBits = 0 /\ copy1 = <<>>
  /\ copy2 = <<>> /\ max = 0 /\ min = 0 /\ denShift = 0 /\ pcRS = Idle

BsIdle ==
  /\ array = <<>> /\ array0 = <<>> /\ num = 0 /\ tmp = <<>> /\ start = <<>>
  /\ bsMin = 0 /\ bsMax = 0 /\ index = <<>> /\ pcBS = <<>> /\ phBS = Idle

(* An optional array argument is <<a>> when given and NULL when not. *)
NULL == <<>>

ElIdle ==
  /\ nv = 0 /\ ne = 0 /\ sv1 = <<>> /\ ev1 = <<>> /\ w1 = <<>>
  /\ timeRecent = NULL /\ timeFirst = NULL /\ ev2 = <<>> /\ w2 = <<>>
  /\ elT2 = <<>> /\ elT1 = <<>> /\ offsets = <<>> /\ elIndex = <<>>
  /\ pcEL = <<>> /\ phEL = Idle

SeIdle ==
  /\ STINGER_EDGEBLOCKSIZE = 0 /\ ebpool = <<>> /\ ebpool0 = <<>>
  /\ vertexEdges = 0 /\ type = 0 /\ seStart = 0 /\ sorted = 0 /\ pcSE = Idle

CsrIdle ==
  /\ adj = <<>> /\ outdeg = <<>> /\ want = {} /\ off = <<>> /\ ind = <<>>
  /\ meta = <<>> /\ csrI = 0 /\ degRead = <<>> /\ gathered = <<>> /\ pcG = <<>>
  /\ pcS = <<>> /\ unsorted = <<>> /\ mutated = FALSE /\ touched = {}
  /\ pcCSR = Idle

CntIdle ==
  /\ pcCnt = Idle
  /\ cntArray = <<>> /\ cntArray0 = <<>> /\ cntNum = 0 /\ cntMin = 0
  /\ cntMax = 0 /\ cntRange = 0 /\ cntCount = <<>> /\ accessed = {}

FsIdle ==
  /\ tofind = 0 /\ N = 0 /\ fsAry = <<>> /\ top = 0 /\ bot = 0 /\ out = 0
  /\ pcFS = Idle

IcIdle == va = <<>> /\ vb = <<>> /\ icRet = 0 /\ pcIC = Idle

SgIdle ==
  /\ sgFile = <<>> /\ sgTail = 0 /\ sz = 0 /\ mem = <<>> /\ sgNv = 0
  /\ sgNe = 0 /\ sgViews = <<>> /\ pcSG = Idle

GenIdle ==
  /\ batch_size = 0 /\ num_batches = 0 /\ genNv = 0 /\ batch_num = 0
  /\ line = 0 /\ sent = <<>> /\ pcGen = Idle

PaIdle ==
  /\ argc = 0 /\ argv = <<>> /\ paK = 0 /\ seen_batch = 0 /\ seen_nbatch = 0
  /\ paBatchSize = <<>> /\ paNbatch = <<>> /\ initial_graph_name = <<>>
  /\ action_stream_name = <<>> /\ pcPA = Idle

(* Kernel c runs alone: the other kernels are idle and stay so. *)
OthersIdle(c) ==
  /\ (c = "ps" \/ PsIdle)
  /\ (c = "rs" \/ RsIdle)
  /\ (c = "bs" \/ BsIdle)
  /\ (c = "el" \/ ElIdle)
  /\ (c = "se" \/ SeIdle)
  /\ (c = "csr" \/ CsrIdle)
  /\ (c = "cnt" \/ CntIdle)
  /\ (c = "fs" \/ FsIdle)
  /\ (c = "ic" \/ IcIdle)
  /\ (c = "sg" \/ SgIdle)
  /\ (c = "gen" \/ GenIdle)
  /\ (c = "pa" \/ PaIdle)

Frame(c) ==
  /\ (c = "ps" \/ UNCHANGED psVars)
  /\ (c = "rs" \/ UNCHANGED rsVars)
  /\ (c = "bs" \/ UNCHANGED bsVars)
  /\ (c = "el" \/ UNCHANGED elVars)
  /\ (c = "se" \/ UNCHANGED seVars)
  /\ (c = "csr" \/ UNCHANGED csrVars)
  /\ (c = "cnt" \/ UNCHANGED cntVars)
  /\ (c = "fs" \/ UNCHANGED fsVars)
  /\ (c = "ic" \/ UNCHANGED icVars)
  /\ (c = "sg" \/ UNCHANGED sgVars)
  /\ (c = "gen" \/ UNCHANGED genVars)
  /\ (c = "pa" \/ UNCHANGED paVars)

----------------------------------------------------------------------------
(* Bounds of the model.                                                    *)

MaxN == 3
MaxThreads == 4

MaxPairs == 3
MaxNum == 3
MaxNe == 3
MaxOccupied == 4
MaxSlots == 3
MaxArgs == 3
MaxBatches == 4
MaxSent == 3
MaxWords == 8
MaxLen == 9
MaxCount == 3

(* Element values the inputs are drawn from. *)
PsVals == {1, 2}
RsVals == {-1, 0, 1, 2}
RsBits == {1, 2}
BsKeys == {-1, 0, 1}
BsPayloads == {0, 1}
ElNvs == {1, 2}
ElEdges == {<<0, 5>>, <<1, 6>>}
EbSizes == {2, 3}
SeChains == {<<0>>, <<1>>, <<0, 0>>, <<1, 0>>, <<0, 1>>}

----------------------------------------------------------------------------
(* Generic helpers.                                                        *)

RECURSIVE SumRange(_, _, _)
(* f[lo] + ... + f[hi-1] *)
SumRange(f, lo, hi) == IF lo >= hi THEN 0 ELSE f[lo] + SumRange(f, lo + 1, hi)

(* C integer division truncates toward zero. *)
CDiv(a, b) == IF a >= 0 THEN a \div b ELSE -((-a) \div b)

----------------------------------------------------------------------------
(* prefix_sum, OpenMP build (lines 1192-1238).                             *)

Workers == 0 .. nt - 1

slice_begin(tid) == (tid * n) \div nt
slice_end(tid) == ((tid + 1) * n) \div nt

PsInit ==
  \E nn \in 1 .. MaxN, tt \in 1 .. MaxThreads :
    /\ n = nn
    /\ nt = tt
    /\ ary \in [0 .. nn - 1 -> PsVals]
    /\ ary0 = ary
    /\ buf = [t \in 0 .. tt - 1 |-> 0]
    /\ t1 = [t \in 0 .. tt - 1 |-> 0]
    /\ k = [t \in 0 .. tt - 1 |-> 0]
    /\ acc = [t \in 0 .. tt - 1 |-> 0]
    /\ ret = [t \in 0 .. tt - 1 |-> 0]
    /\ pcPS = [t \in 0 .. tt - 1 |-> "sum"]
    /\ OthersIdle("ps")

(* lines 1208-1215: each worker sums its slice into buf[tid]. *)
SliceSum(tid) ==
  /\ pcPS[tid] = "sum"
  /\ buf' = [buf EXCEPT ![tid] = SumRange(ary, slice_begin(tid), slice_end(tid))]
  /\ pcPS' = [pcPS EXCEPT ![tid] = "barrier1"]
  /\ UNCHANGED <<n, nt, ary, ary0, t1, k, acc, ret>>
  /\ Frame("ps")

RECURSIVE ScanBuf(_, _)
(* for (k = 1; k < nt; ++k) buf[k] += buf[k-1]; *)
ScanBuf(b, j) ==
  IF j >= nt THEN b ELSE ScanBuf([b EXCEPT ![j] = b[j] + b[j - 1]], j + 1)

(* lines 1218-1222: barrier, one worker scans buf, barrier. *)
SingleScan ==
  /\ nt > 0
  /\ \A t \in Workers : pcPS[t] = "barrier1"
  /\ buf' = ScanBuf(buf, 1)
  /\ pcPS' = [t \in Workers |-> "get"]
  /\ UNCHANGED <<n, nt, ary, ary0, t1, k, acc, ret>>
  /\ Frame("ps")

(* lines 1225-1228 *)
GetSliceSum(tid) ==
  /\ pcPS[tid] = "get"
  /\ t1' = [t1 EXCEPT ![tid] = IF tid # 0 THEN buf[tid - 1] ELSE 0]
  /\ pcPS' = [pcPS EXCEPT ![tid] = "first_load"]
  /\ UNCHANGED <<n, nt, ary, ary0, buf, k, acc, ret>>
  /\ Frame("ps")

(* line 1231, ary[slice_begin] += t1: the load.  The statement is not      *)
(* guarded by slice_begin < slice_end and is not atomic.                   *)
FirstLoad(tid) ==
  /\ pcPS[tid] = "first_load"
  /\ acc' = [acc EXCEPT ![tid] = ary[slice_begin(tid)] + t1[tid]]
  /\ pcPS' = [pcPS EXCEPT ![tid] = "first_store"]
  /\ UNCHANGED <<n, nt, ary, ary0, buf, t1, k, ret>>
  /\ Frame("ps")

(* line 1231: the store; line 1232: k = slice_begin + 1. *)
FirstStore(tid) ==
  /\ pcPS[tid] = "first_store"
  /\ ary' = [ary EXCEPT ![slice_begin(tid)] = acc[tid]]
  /\ k' = [k EXCEPT ![tid] = slice_begin(tid) + 1]
  /\ pcPS' = [pcPS EXCEPT ![tid] = "loop"]
  /\ UNCHANGED <<n, nt, ary0, buf, t1, acc, ret>>
  /\ Frame("ps")

(* lines 1232-1234, ary[k] += ary[k-1]: the loads. *)
LoopLoad(tid) ==
  /\ pcPS[tid] = "loop"
  /\ k[tid] < slice_end(tid)
  /\ acc' = [acc EXCEPT ![tid] = ary[k[tid]] + ary[k[tid] - 1]]
  /\ pcPS' = [pcPS EXCEPT ![tid] = "loop_store"]
  /\ UNCHANGED <<n, nt, ary, ary0, buf, t1, k, ret>>
  /\ Frame("ps")

(* lines 1232-1234: the store and ++k. *)
LoopStore(tid) ==
  /\ pcPS[tid] = "loop_store"
  /\ ary' = [ary EXCEPT ![k[tid]] = acc[tid]]
  /\ k' = [k EXCEPT ![tid] = k[tid] + 1]
  /\ pcPS' = [pcPS EXCEPT ![tid] = "loop"]
  /\ UNCHANGED <<n, nt, ary0, buf, t1, acc, ret>>
  /\ Frame("ps")

(* line 1232: loop exit, the worker waits at the barrier of line 1235. *)
LoopExit(tid) ==
  /\ pcPS[tid] = "loop"
  /\ k[tid] >= slice_end(tid)
  /\ pcPS' = [pcPS EXCEPT ![tid] = "barrier3"]
  /\ UNCHANGED <<n, nt, ary, ary0, buf, t1, k, acc, ret>>
  /\ Frame("ps")

(* lines 1235-1237: barrier, then every worker returns ary[n-1]. *)
PsReturn ==
  /\ nt > 0
  /\ \A t \in Workers : pcPS[t] = "barrier3"
  /\ ret' = [t \in Workers |-> ary[n - 1]]
  /\ pcPS' = [t \in Workers |-> "done"]
  /\ UNCHANGED <<n, nt, ary, ary0, buf, t1, k, acc>>
  /\ Frame("ps")

PsNext ==
  \/ \E tid \in Workers : SliceSum(tid)
  \/ SingleScan
  \/ \E tid \in Workers : GetSliceSum(tid)
  \/ \E tid \in Workers : FirstLoad(tid)
  \/ \E tid \in Workers : FirstStore(tid)
  \/ \E tid \in Workers : LoopLoad(tid)
  \/ \E tid \in Workers : LoopStore(tid)
  \/ \E tid \in Workers : LoopExit(tid)
  \/ PsReturn

PsDone == nt > 0 /\ \A t \in Workers : pcPS[t] = "done"

(* The serial inclusive prefix sum of the input. *)
SerialPrefix == [j \in 0 .. n - 1 |-> SumRange(ary0, 0, j + 1)]

(* C1: prefix_sum called by all nt workers leaves ary equal to the serial  *)
(* inclusive prefix sum of the input and returns the grand total, for      *)
(* every nt >= 1 (also nt > n) and every array of n >= 1 integers.         *)
C1_PrefixSumIsSerial ==
  PsDone => /\ ary = SerialPrefix
            /\ \A t \in Workers : ret[t] = SumRange(ary0, 0, n)

(* The store of line 1231 or 1233 worker tid is about to make is to an     *)
(* element of the set S.                                                   *)
StoresInto(tid, S) ==
  /\ pcPS[tid] = "first_store" => slice_begin(tid) \in S
  /\ pcPS[tid] = "loop_store" => k[tid] \in S

(* C18: in the final phase of the OpenMP prefix_sum each worker writes     *)
(* only elements of its own slice [tid*n/nt, (tid+1)*n/nt), so that no     *)
(* element is written by two workers, workers with an empty slice          *)
(* included.                                                               *)
C18_WritesInsideOwnSlice ==
  \A tid \in Workers :
    StoresInto(tid, slice_begin(tid) .. slice_end(tid) - 1)

(* The same, for the workers whose slice is not empty. *)
WritesOfNonEmptySlices ==
  \A tid \in Workers :
    slice_begin(tid) < slice_end(tid) =>
      StoresInto(tid, slice_begin(tid) .. slice_end(tid) - 1)

(* With n >= 1 every write is to an element of the array. *)
WritesInsideArray == \A tid \in Workers : StoresInto(tid, 0 .. n - 1)

----------------------------------------------------------------------------
(* radix_sort_pairs (lines 960-1092).  Arrays are functions on 0..len-1.   *)

(* xmalloc'ed memory of len words; every word is written before it is read. *)
Fresh(len) == [j \in 0 .. len - 1 |-> 0]

RsInit ==
  \E np \in 1 .. MaxPairs, nb \in RsBits :
    /\ length = 2 * np
    /\ numBits = nb
    /\ x \in [0 .. 2 * np - 1 -> RsVals]
    /\ x0 = x
    /\ copy1 = Fresh(2 * np)
    /\ copy2 = Fresh(2 * np)
    /\ max = 0 /\ min = 0 /\ denShift = 0
    /\ pcRS = "setup"
    /\ OthersIdle("rs")

numBuckets == 2 ^ numBits
bitMask == numBuckets - 1

(* (v >> shift) & bitMask on a two's-complement int64_t: the arithmetic    *)
(* shift is the floor division, the mask the non-negative remainder.       *)
Digit(v, shift) == (v \div (2 ^ shift)) % (bitMask + 1)

(* A fetch-add whose increment is lost, as when the update is not atomic. *)
FetchAddLost(a, idx, inc) == <<a[idx], a>>

(* stinger_int64_fetch_add (&a[idx], inc): <<value before, array after>>. *)
FetchAdd(a, idx, inc) == <<a[idx], [a EXCEPT ![idx] = a[idx] + inc]>>

RECURSIVE MaxSecond(_, _, _)
(* lines 970-981: running maximum of the second elements from word j on *)
MaxSecond(a, j, m) ==
  IF j >= length THEN m
  ELSE MaxSecond(a, j + 2, IF m < a[j + 1] THEN a[j + 1] ELSE m)

RECURSIVE MinSecond(_, _, _)
MinSecond(a, j, m) ==
  IF j >= length THEN m
  ELSE MinSecond(a, j + 2, IF m > a[j + 1] THEN a[j + 1] ELSE m)

RECURSIVE MaxFirst(_, _, _)
(* lines 1031-1036: maximum of the first elements *)
MaxFirst(a, j, m) ==
  IF j >= length THEN m
  ELSE MaxFirst(a, j + 2, IF m < a[j] THEN a[j] ELSE m)

(* lines 985-988 and 1078-1081: add d to every second element. *)
ShiftSeconds(a, d) ==
  [j \in 0 .. length - 1 |-> IF j % 2 = 1 THEN a[j] + d ELSE a[j]]

RECURSIVE RsHistogram(_, _, _, _)
(* lines 1000-1006 / 1048-1052; b is the buckets block, read through the   *)
(* pointer buckets += 2; w selects the word of the pair that is the key.   *)
RsHistogram(src, w, j, b) ==
  IF j >= length THEN b
  ELSE RsHistogram(src, w, j + 2,
                   FetchAdd(b, 2 + Digit(src[j + w], denShift), 2)[2])

RECURSIVE RsPrefix(_, _)
(* lines 1008-1011 / 1054-1057, still through buckets += 2 *)
RsPrefix(b, j) ==
  IF j >= numBuckets THEN b
  ELSE RsPrefix([b EXCEPT ![2 + j] = b[2 + j] + b[2 + j - 1]], j + 1)

RECURSIVE RsScatter(_, _, _, _, _)
(* lines 1015-1021 / 1061-1067, after buckets--: bucket d starts at b[1+d] *)
RsScatter(src, w, j, b, dst) ==
  IF j >= length THEN dst
  ELSE LET fa == FetchAdd(b, 1 + Digit(src[j + w], denShift), 2)
           at == fa[1]
       IN RsScatter(src, w, j + 2, fa[2],
                    [dst EXCEPT ![at] = src[j], ![at + 1] = src[j + 1]])

(* One iteration of a digit loop: zero the buckets, histogram, prefix,     *)
(* scatter copy1 into copy2. *)
DigitPass(w) ==
  LET zero == [j \in 0 .. numBuckets + 1 |-> 0]
      hist == RsHistogram(copy1, w, 0, zero)
      pre == RsPrefix(hist, 1)
  IN RsScatter(copy1, w, 0, pre, copy2)

(* lines 970-990: copy x, find min and max of the seconds, shift them. *)
RsSetup ==
  /\ pcRS = "setup"
  /\ LET mx == MaxSecond(x, 0, x[1])
         mn == MinSecond(x, 0, x[1])
     IN /\ min' = -mn
        /\ max' = mx + (-mn)
        /\ copy1' = ShiftSeconds(x, -mn)
  /\ denShift' = 0
  /\ pcRS' = "pass1"
  /\ UNCHANGED <<x, x0, length, numBits, copy2>>
  /\ Frame("rs")

(* lines 991-1029: one digit of the pass over the second elements. *)
RsPass1Digit ==
  /\ pcRS = "pass1"
  /\ max # 0
  /\ copy1' = DigitPass(1)
  /\ copy2' = copy1
  /\ denShift' = denShift + numBits
  /\ max' = CDiv(max, numBuckets)
  /\ UNCHANGED <<x, x0, length, numBits, min, pcRS>>
  /\ Frame("rs")

(* lines 1031-1038: the first loop ends, max of the first elements. *)
RsPass1End ==
  /\ pcRS = "pass1"
  /\ max = 0
  /\ max' = MaxFirst(copy1, 0, copy1[0])
  /\ denShift' = 0
  /\ pcRS' = "pass2"
  /\ UNCHANGED <<x, x0, length, numBits, copy1, copy2, min>>
  /\ Frame("rs")

(* lines 1039-1075: one digit of the pass over the first elements. *)
RsPass2Digit ==
  /\ pcRS = "pass2"
  /\ max # 0
  /\ copy1' = DigitPass(0)
  /\ copy2' = copy1
  /\ denShift' = denShift + numBits
  /\ max' = CDiv(max, numBuckets)
  /\ UNCHANGED <<x, x0, length, numBits, min, pcRS>>
  /\ Frame("rs")

(* lines 1078-1086: undo the shift, copy back. *)
RsFinish ==
  /\ pcRS = "pass2"
  /\ max = 0
  /\ x' = ShiftSeconds(copy1, -min)
  /\ copy1' = ShiftSeconds(copy1, -min)
  /\ pcRS' = "done"
  /\ UNCHANGED <<x0, length, numBits, copy2, max, min, denShift>>
  /\ Frame("rs")

RsNext ==
  \/ RsSetup
  \/ RsPass1Digit
  \/ RsPass1End
  \/ RsPass2Digit
  \/ RsFinish

(* The pairs of a flat array, as a sequence of <<first, second>>. *)
PairsOf(a, len) == [p \in 1 .. len \div 2 |-> <<a[2 * (p - 1)], a[2 * (p - 1) + 1]>>]

PairLeq(p, q) == p[1] < q[1] \/ (p[1] = q[1] /\ p[2] <= q[2])

SortedPairs(s) == \A p \in 1 .. Len(s) - 1 : PairLeq(s[p], s[p + 1])

(* Number of positions of sequence s holding e. *)
Count(s, e) == Cardinality({p \in DOMAIN s : s[p] = e})

(* s and t hold the same elements with the same multiplicities. *)
Permutation(s, t) ==
  /\ Len(s) = Len(t)
  /\ \A p \in DOMAIN s : Count(s, s[p]) = Count(t, s[p])

(* C2: radix_sort_pairs leaves the array a permutation of the input pairs  *)
(* in ascending lexicographic order by (first, second), for every input,   *)
(* negative first and second elements included.                            *)
C2_RadixSortsPairs ==
  pcRS = "done" => /\ Permutation(PairsOf(x, length), PairsOf(x0, length))
                   /\ SortedPairs(PairsOf(x, length))

(* The same property for inputs whose first elements are all >= 0. *)
RadixSortsNonNegativeFirsts ==
  (pcRS = "done" /\ \A j \in 0 .. length - 1 : j % 2 = 0 => x0[j] >= 0)
    => /\ Permutation(PairsOf(x, length), PairsOf(x0, length))
       /\ SortedPairs(PairsOf(x, length))

----------------------------------------------------------------------------
(* bucket_sort_pairs (lines 882-949).                                       *)

BsInit ==
  \E np \in 1 .. MaxNum :
    /\ num = np
    /\ array \in [0 .. 2 * np - 1 -> BsKeys \cup BsPayloads]
    /\ \A j \in 0 .. 2 * np - 1 :
         IF j % 2 = 0 THEN array[j] \in BsKeys ELSE array[j] \in BsPayloads
    /\ array0 = array
    /\ tmp = Fresh(2 * np)
    /\ start = <<>>
    /\ bsMin = 0 /\ bsMax = 0
    /\ index = [i \in 0 .. np - 1 |-> 0]
    /\ pcBS = [i \in 0 .. np - 1 |-> "wait"]
    /\ phBS = "setup"
    /\ OthersIdle("bs")

Iterations == 0 .. num - 1

RECURSIVE MaxKey(_, _, _)
(* lines 888-893 *)
MaxKey(a, j, m) ==
  IF j >= 2 * num THEN m ELSE MaxKey(a, j + 2, IF m < a[j] THEN a[j] ELSE m)

RECURSIVE MinKey(_, _, _)
(* lines 888, 896-898 *)
MinKey(a, j, m) ==
  IF j >= 2 * num THEN m ELSE MinKey(a, j + 2, IF m > a[j] THEN a[j] ELSE m)

range == bsMax - bsMin + 1
offset == 0 - bsMin

RECURSIVE BsHistogram(_, _, _, _)
(* lines 909-914: start += 2; start[array[i]+offset] += 2 *)
BsHistogram(a, ofs, j, b) ==
  IF j >= 2 * num THEN b
  ELSE BsHistogram(a, ofs, j + 2,
                   [b EXCEPT ![2 + a[j] + ofs] = b[2 + a[j] + ofs] + 2])

RECURSIVE BsPrefix(_, _, _)
(* lines 917-918: for (i = 0; i < range; i++) start[i] += start[i-1] *)
BsPrefix(b, rng, j) ==
  IF j >= rng THEN b
  ELSE BsPrefix([b EXCEPT ![2 + j] = b[2 + j] + b[2 + j - 1]], rng, j + 1)

(* lines 886-920: min and max of the keys, the zeroed cursor block, the    *)
(* histogram and its prefix sum; serial. *)
BsSetup ==
  /\ phBS = "setup"
  /\ LET mx == MaxKey(array, 2, array[0])
         mn == MinKey(array, 2, array[0])
         rng == mx - mn + 1
         zero == [j \in 0 .. rng + 1 |-> 0]
     IN /\ bsMax' = mx
        /\ bsMin' = mn
        /\ start' = BsPrefix(BsHistogram(array, 0 - mn, 0, zero), rng, 0)
  /\ pcBS' = [i \in Iterations |-> "claim"]
  /\ phBS' = "scatter"
  /\ UNCHANGED <<array, array0, num, tmp, index>>
  /\ Frame("bs")

(* line 926, after start--: the iteration claims its slot with an atomic   *)
(* fetch-add of 2 on the cursor of its bucket. *)
BsClaim(i) ==
  /\ phBS = "scatter"
  /\ pcBS[i] = "claim"
  /\ LET fa == FetchAdd(start, 1 + array[2 * i] + offset, 2)
     IN /\ index' = [index EXCEPT ![i] = fa[1]]
        /\ start' = fa[2]
  /\ pcBS' = [pcBS EXCEPT ![i] = "write"]
  /\ UNCHANGED <<array, array0, num, tmp, bsMin, bsMax, phBS>>
  /\ Frame("bs")

(* lines 927-928 *)
BsWrite(i) ==
  /\ phBS = "scatter"
  /\ pcBS[i] = "write"
  /\ tmp' = [tmp EXCEPT ![index[i]] = array[2 * i],
                        ![index[i] + 1] = array[2 * i + 1]]
  /\ pcBS' = [pcBS EXCEPT ![i] = "moved"]
  /\ UNCHANGED <<array, array0, num, start, bsMin, bsMax, index, phBS>>
  /\ Frame("bs")

(* lines 932-935: after the scatter loop, copy tmp back. *)
BsCopyBack ==
  /\ phBS = "scatter"
  /\ \A i \in Iterations : pcBS[i] = "moved"
  /\ array' = [j \in 0 .. 2 * num - 1 |-> tmp[j]]
  /\ phBS' = "sort"
  /\ UNCHANGED <<array0, num, tmp, start, bsMin, bsMax, index, pcBS>>
  /\ Frame("bs")

(* lines 597-613 *)
i64_pair_cmp(pa, pb) ==
  IF pa[1] < pb[1] THEN -1
  ELSE IF pa[1] > pb[1] THEN 1
  ELSE IF pa[2] < pb[2] THEN -1
  ELSE IF pa[2] > pb[2] THEN 1
  ELSE 0

RECURSIVE InsertPair(_, _)
InsertPair(e, s) ==
  IF s = <<>> THEN <<e>>
  ELSE IF i64_pair_cmp(e, Head(s)) <= 0 THEN <<e>> \o s
  ELSE <<Head(s)>> \o InsertPair(e, Tail(s))

RECURSIVE QsortPairs(_)
(* qsort (base, nmemb, 2*sizeof(int64_t), i64_pair_cmp): the comparison is *)
(* a total order in which only identical pairs compare equal, so the       *)
(* result is the one sorted arrangement. *)
QsortPairs(s) == IF s = <<>> THEN <<>> ELSE InsertPair(Head(s), QsortPairs(Tail(s)))

(* The array with the pairs of words lo .. lo+degree-1 sorted. *)
SortSegment(a, lo, degree) ==
  LET seg == QsortPairs([p \in 1 .. degree \div 2 |->
                           <<a[lo + 2 * (p - 1)], a[lo + 2 * (p - 1) + 1]>>])
  IN [j \in DOMAIN a |->
        IF j >= lo /\ j < lo + degree
        THEN seg[((j - lo) \div 2) + 1][((j - lo) % 2) + 1]
        ELSE a[j]]

RECURSIVE SortBuckets(_, _)
(* lines 937-945, after the second start--: bucket i is start[i]..start[i+1] *)
SortBuckets(a, i) ==
  IF i >= range THEN a
  ELSE LET degree == start[i + 1] - start[i]
       IN SortBuckets(IF degree >= 4 THEN SortSegment(a, start[i], degree) ELSE a,
                      i + 1)

BsSort ==
  /\ phBS = "sort"
  /\ array' = SortBuckets(array, 0)
  /\ phBS' = "done"
  /\ UNCHANGED <<array0, num, tmp, start, bsMin, bsMax, index, pcBS>>
  /\ Frame("bs")

BsNext ==
  \/ BsSetup
  \/ \E i \in Iterations : BsClaim(i)
  \/ \E i \in Iterations : BsWrite(i)
  \/ BsCopyBack
  \/ BsSort

Claimed(i) == pcBS[i] \in {"write", "moved"}

(* C3: under every interleaving of the scatter iterations no two pairs     *)
(* claim the same destination slot (each claimed slot is an even word      *)
(* index inside the array), and bucket_sort_pairs ends with the array a    *)
(* permutation of the input pairs in ascending order by (key, payload).    *)
C3_BucketSortPairs ==
  /\ \A i \in Iterations :
       Claimed(i) => /\ index[i] \in 0 .. 2 * num - 2
                     /\ index[i] % 2 = 0
                     /\ \A j \in Iterations : (j # i /\ Claimed(j)) => index[j] # index[i]
  /\ phBS = "done" => /\ Permutation(PairsOf(array, 2 * num), PairsOf(array0, 2 * num))
                      /\ SortedPairs(PairsOf(array, 2 * num))

(* A finished sort of three pairs with a negative key, two pairs sharing a *)
(* bucket, the later-claimed one scattered first, and an input that was    *)
(* out of order. *)
C3_Witness ==
  /\ phBS = "done"
  /\ num = 3
  /\ \E i \in Iterations : array0[2 * i] < 0
  /\ \E i, j \in Iterations :
       i < j /\ array0[2 * i] = array0[2 * j] /\ index[j] < index[i]
  /\ array # array0

----------------------------------------------------------------------------
(* edge_list_to_csr (lines 652-694).                                        *)

ElInit ==
  \E vv \in ElNvs, ee \in 0 .. MaxNe, timed \in BOOLEAN :
    /\ nv = vv
    /\ ne = ee
    /\ sv1 \in [0 .. ee - 1 -> 0 .. vv - 1]
    /\ \E dw \in [0 .. ee - 1 -> ElEdges] :
         /\ ev1 = [i \in 0 .. ee - 1 |-> dw[i][1]]
         /\ w1 = [i \in 0 .. ee - 1 |-> dw[i][2]]
    /\ timeFirst = IF timed THEN <<[i \in 0 .. ee - 1 |-> 10 + i]>> ELSE NULL
    /\ timeRecent = IF timed THEN <<[i \in 0 .. ee - 1 |-> 20 + i]>> ELSE NULL
    /\ ev2 = Fresh(ee) /\ w2 = Fresh(ee) /\ elT1 = Fresh(ee) /\ elT2 = Fresh(ee)
    /\ offsets = [j \in 0 .. vv + 1 |-> 7]
    /\ elIndex = [i \in 0 .. ee - 1 |-> 0]
    /\ pcEL = [i \in 0 .. ee - 1 |-> "wait"]
    /\ phEL = "zero"
    /\ OthersIdle("el")

Edges == 0 .. ne - 1

(* lines 659-661 *)
ElZero ==
  /\ phEL = "zero"
  /\ offsets' = [j \in 0 .. nv + 1 |-> 0]
  /\ pcEL' = [i \in Edges |-> "hist"]
  /\ phEL' = "histogram"
  /\ UNCHANGED <<nv, ne, sv1, ev1, w1, timeRecent, timeFirst, ev2, w2, elT2,
                 elT1, elIndex>>
  /\ Frame("el")

(* lines 663-669, after offset += 2: one iteration of the histogram loop. *)
ElHistogram(i) ==
  /\ phEL = "histogram"
  /\ pcEL[i] = "hist"
  /\ offsets' = FetchAdd(offsets, 2 + sv1[i], 1)[2]
  /\ pcEL' = [pcEL EXCEPT ![i] = "counted"]
  /\ UNCHANGED <<nv, ne, sv1, ev1, w1, timeRecent, timeFirst, ev2, w2, elT2,
                 elT1, elIndex, phEL>>
  /\ Frame("el")

RECURSIVE ElPrefixLoop(_, _)
(* lines 672-673: for (i = 1; i < nv; i++) offset[i] += offset[i-1] *)
ElPrefixLoop(o, i) ==
  IF i >= nv THEN o
  ELSE ElPrefixLoop([o EXCEPT ![2 + i] = o[2 + i] + o[2 + i - 1]], i + 1)

(* lines 671-675: the histogram loop has ended; serial prefix sum. *)
ElPrefix ==
  /\ phEL = "histogram"
  /\ \A i \in Edges : pcEL[i] = "counted"
  /\ offsets' = ElPrefixLoop(offsets, 1)
  /\ pcEL' = [i \in Edges |-> "claim"]
  /\ phEL' = "scatter"
  /\ UNCHANGED <<nv, ne, sv1, ev1, w1, timeRecent, timeFirst, ev2, w2, elT2,
                 elT1, elIndex>>
  /\ Frame("el")

(* The cursor of vertex s without the offset-- of line 675. *)
ElCursorNoDecrement(s) == 2 + s

(* line 675, offset-- after offset += 2: offset[s] is word 1+s of the block *)
ElCursor(s) == 1 + s

(* lines 680 / 689: the iteration claims its output index. *)
ElClaim(i) ==
  /\ phEL = "scatter"
  /\ pcEL[i] = "claim"
  /\ LET fa == FetchAdd(offsets, ElCursor(sv1[i]), 1)
     IN /\ elIndex' = [elIndex EXCEPT ![i] = fa[1]]
        /\ offsets' = fa[2]
  /\ pcEL' = [pcEL EXCEPT ![i] = "write"]
  /\ UNCHANGED <<nv, ne, sv1, ev1, w1, timeRecent, timeFirst, ev2, w2, elT2,
                 elT1, phEL>>
  /\ Frame("el")

(* lines 677-693: the stores of the iteration, with or without timestamps. *)
ElWrite(i) ==
  /\ phEL = "scatter"
  /\ pcEL[i] = "write"
  /\ ev2' = [ev2 EXCEPT ![elIndex[i]] = ev1[i]]
  /\ w2' = [w2 EXCEPT ![elIndex[i]] = w1[i]]
  /\ IF timeRecent # NULL /\ timeFirst # NULL
     THEN /\ elT1' = [elT1 EXCEPT ![elIndex[i]] = timeFirst[1][i]]
          /\ elT2' = [elT2 EXCEPT ![elIndex[i]] = timeRecent[1][i]]
     ELSE UNCHANGED <<elT1, elT2>>
  /\ pcEL' = [pcEL EXCEPT ![i] = "moved"]
  /\ UNCHANGED <<nv, ne, sv1, ev1, w1, timeRecent, timeFirst, offsets, elIndex,
                 phEL>>
  /\ Frame("el")

(* line 694: the scatter loop has ended, the function returns. *)
ElReturn ==
  /\ phEL = "scatter"
  /\ \A i \in Edges : pcEL[i] = "moved"
  /\ phEL' = "done"
  /\ UNCHANGED <<nv, ne, sv1, ev1, w1, timeRecent, timeFirst, ev2, w2, elT2,
                 elT1, offsets, elIndex, pcEL>>
  /\ Frame("el")

ElNext ==
  \/ ElZero
  \/ \E i \in Edges : ElHistogram(i)
  \/ ElPrefix
  \/ \E i \in Edges : ElClaim(i)
  \/ \E i \in Edges : ElWrite(i)
  \/ ElReturn

(* The vertex whose CSR slice holds output index p. *)
OwnerOf(p) == CHOOSE v \in 0 .. nv - 1 : offsets[v] <= p /\ p < offsets[v + 1]

(* The CSR read back as an edge list, and the input edge list. *)
CsrTriples == [p \in 1 .. ne |-> <<OwnerOf(p - 1), ev2[p - 1], w2[p - 1]>>]
InputTriples == [p \in 1 .. ne |-> <<sv1[p - 1], ev1[p - 1], w1[p - 1]>>]

ElClaimed(i) == pcEL[i] \in {"write", "moved"}

(* C7: under every interleaving of the histogram and scatter loops no two  *)
(* edges claim the same output index, and edge_list_to_csr ends with       *)
(* offset[0] = 0, offset non-decreasing, offset[nv] = ne, every output     *)
(* index 0..ne-1 written by exactly one edge, and the (source, destination,*)
(* weight) triples read back from the CSR equal to the input as a multiset *)
(* (duplicates kept).                                                      *)
C7_EdgeListToCsr ==
  /\ \A i, j \in Edges :
       (i # j /\ ElClaimed(i) /\ ElClaimed(j)) => elIndex[i] # elIndex[j]
  /\ phEL = "done" =>
       /\ offsets[0] = 0
       /\ \A v \in 0 .. nv - 1 : offsets[v] <= offsets[v + 1]
       /\ offsets[nv] = ne
       /\ {elIndex[i] : i \in Edges} = 0 .. ne - 1
       /\ \A p \in 0 .. ne - 1 : \E v \in 0 .. nv - 1 :
            offsets[v] <= p /\ p < offsets[v + 1]
       /\ Permutation(CsrTriples, InputTriples)

(* A finished conversion of three edges, two of them the same (source,     *)
(* destination, weight), where a later edge of a vertex claimed an earlier *)
(* index than an earlier edge of that vertex. *)
C7_Witness ==
  /\ phEL = "done"
  /\ ne = 3 /\ nv = 2
  /\ \E i, j \in Edges : i # j /\ InputTriples[i + 1] = InputTriples[j + 1]
  /\ \E i, j \in Edges : i < j /\ sv1[i] = sv1[j] /\ elIndex[j] < elIndex[i]
  /\ \E i \in Edges : sv1[i] = 1

----------------------------------------------------------------------------
(* stinger_sort_edge_list (lines 765-864).  An edge block is a record      *)
(* [etype, next, edges, high, numEdges, smallStamp, largeStamp]; edges is  *)
(* a function on 0 .. STINGER_EDGEBLOCKSIZE-1 of edge records.             *)

Edge(nbr, w, tf, tr) ==
  [neighbor |-> nbr, weight |-> w, timeFirst |-> tf, timeRecent |-> tr]

(* A slot of a zeroed block that was never used. *)
UnusedSlot == Edge(0, 0, 0, 0)

(* A deleted edge: the neighbor field is -1, the rest is left behind. *)
Tombstone == Edge(-1, 1, 1, 1)

(* The slots below the high-water mark the stores are drawn from: live     *)
(* edges, among them the edge to vertex 0 with weight 0 at time 0, and     *)
(* tombstones. *)
SeSlots == {Edge(0, 1, 1, 1), Edge(1, 2, 0, 2), Edge(2, 1, 1, 1),
            Edge(0, 0, 0, 0), Tombstone}

INT64_MAX == 2147483647
INT64_MIN == -2147483647

(* stinger_eb_is_blank (eb, i): the slot holds no edge. *)
stinger_eb_is_blank(eb, i) == eb.edges[i].neighbor < 0

Minimum(S) == CHOOSE m \in S : \A e \in S : m <= e
Maximum(S) == CHOOSE m \in S : \A e \in S : m >= e

(* A block of the store with the given slots below its high-water mark. *)
MakeBlock(ty, nxt, ebs, filled) ==
  LET es == [i \in 0 .. ebs - 1 |-> IF i < Len(filled) THEN filled[i + 1] ELSE UnusedSlot]
      live == {i \in 0 .. Len(filled) - 1 : es[i].neighbor >= 0}
  IN [etype |-> ty, next |-> nxt, edges |-> es,
      high |-> Len(filled), numEdges |-> Cardinality(live),
      smallStamp |-> IF live = {} THEN INT64_MAX
                     ELSE Minimum({es[i].timeFirst : i \in live}),
      largeStamp |-> IF live = {} THEN INT64_MIN
                     ELSE Maximum({es[i].timeRecent : i \in live})]

(* Sequences over S of length at most m. *)
SeqUpTo(S, m) == UNION {[1 .. l -> S] : l \in 0 .. m}

(* The chain of the vertex: blocks 1, 2, ... of the pool in chain order.   *)
(* Blocks of the sorted type 0 hold drawn slots, a block of another type   *)
(* holds one edge to vertex 0. *)
SeInit ==
  \E ebs \in EbSizes, chain \in SeChains :
    \E fill \in [1 .. Len(chain) -> SeqUpTo(SeSlots, ebs)] :
      /\ SumRange([b \in 0 .. Len(chain) - 1 |-> Len(fill[b + 1])], 0, Len(chain))
           <= MaxOccupied
      /\ STINGER_EDGEBLOCKSIZE = ebs
      /\ ebpool = [b \in 0 .. Len(chain) |->
                     IF b = 0 THEN MakeBlock(-1, 0, ebs, <<>>)
                     ELSE MakeBlock(chain[b], IF b = Len(chain) THEN 0 ELSE b + 1, ebs,
                                    IF chain[b] = 0 THEN fill[b]
                                    ELSE <<Edge(0, 1, 1, 1)>>)]
      /\ \A b \in 1 .. Len(chain) : chain[b] # 0 => fill[b] = <<>>
      /\ ebpool0 = ebpool
      /\ vertexEdges = 1
      /\ type = 0
      /\ seStart = 0
      /\ sorted = 0
      /\ pcSE = "find"
      /\ OthersIdle("se")

RECURSIVE FindStart(_, _)
(* lines 774-777 *)
FindStart(pool, cur) ==
  IF cur # 0 /\ pool[cur].etype # type THEN FindStart(pool, pool[cur].next) ELSE cur

SeFindStart ==
  /\ pcSE = "find"
  /\ seStart' = FindStart(ebpool, vertexEdges)
  /\ pcSE' = "odd"
  /\ UNCHANGED <<STINGER_EDGEBLOCKSIZE, ebpool, ebpool0, vertexEdges, type, sorted>>
  /\ Frame("se")

(* pool with slots i of block a and j of block b exchanged *)
SwapSlots(pool, a, i, b, j) ==
  LET ea == pool[a].edges[i]
      eb == pool[b].edges[j]
      p1 == [pool EXCEPT ![a].edges[i] = eb]
  IN [p1 EXCEPT ![b].edges[j] = ea]

(* lines 785-801 / 810-826: the body of the inner loop for slot i of block *)
(* cur; st is <<pool, sorted>>. *)
CompareExchange(st, cur, i) ==
  LET pool == st[1]
      nxt == pool[cur].next
  IN IF i < STINGER_EDGEBLOCKSIZE - 1
     THEN IF pool[cur].edges[i].neighbor > pool[cur].edges[i + 1].neighbor
          THEN <<SwapSlots(pool, cur, i, cur, i + 1), 0>>
          ELSE st
     ELSE IF /\ nxt # 0
             /\ pool[nxt].etype = type
             /\ pool[cur].edges[i].neighbor > pool[nxt].edges[0].neighbor
          THEN <<SwapSlots(pool, cur, i, nxt, 0), 0>>
          ELSE st

RECURSIVE SweepBlock(_, _, _)
(* for (i = first; i < STINGER_EDGEBLOCKSIZE; i += 2) *)
SweepBlock(st, cur, i) ==
  IF i >= STINGER_EDGEBLOCKSIZE THEN st
  ELSE SweepBlock(CompareExchange(st, cur, i), cur, i + 2)

RECURSIVE SweepChain(_, _, _)
(* lines 783-804 / 808-829: while (cur_eb != ebpool_priv && etype == type) *)
SweepChain(st, cur, first) ==
  IF cur # 0 /\ st[1][cur].etype = type
  THEN SweepChain(SweepBlock(st, cur, first), st[1][cur].next, first)
  ELSE st

(* lines 779-804: sorted = 1 and the loop over the odd slots. *)
SeSweepOdd ==
  /\ pcSE = "odd"
  /\ LET st == SweepChain(<<ebpool, 1>>, seStart, 1)
     IN /\ ebpool' = st[1]
        /\ sorted' = st[2]
  /\ pcSE' = "even"
  /\ UNCHANGED <<STINGER_EDGEBLOCKSIZE, ebpool0, vertexEdges, type, seStart>>
  /\ Frame("se")

(* lines 806-830: the loop over the even slots, then the test of sorted. *)
SeSweepEven ==
  /\ pcSE = "even"
  /\ LET st == SweepChain(<<ebpool, sorted>>, seStart, 0)
     IN /\ ebpool' = st[1]
        /\ sorted' = st[2]
        /\ pcSE' = IF st[2] = 0 THEN "odd" ELSE "recompute"
  /\ UNCHANGED <<STINGER_EDGEBLOCKSIZE, ebpool0, vertexEdges, type, seStart>>
  /\ Frame("se")

(* curHigh written back without the + 1 of line 858. *)
HighOfNoPlusOne(curHigh) == curHigh

(* line 858: cur_eb->high = curHigh + 1 *)
HighOf(curHigh) == curHigh + 1

RECURSIVE RecomputeBlock(_, _, _)
(* lines 839-856; acc is [large, small, numEdges, high] *)
RecomputeBlock(eb, i, a) ==
  IF i >= STINGER_EDGEBLOCKSIZE
  THEN [eb EXCEPT !.high = HighOf(a.high), !.numEdges = a.numEdges,
                  !.largeStamp = a.large, !.smallStamp = a.small]
  ELSE IF stinger_eb_is_blank(eb, i) THEN RecomputeBlock(eb, i + 1, a)
  ELSE IF /\ eb.edges[i].neighbor = 0
          /\ eb.edges[i].weight = 0
          /\ eb.edges[i].timeFirst = 0
          /\ eb.edges[i].timeRecent = 0
       THEN RecomputeBlock([eb EXCEPT !.edges[i].neighbor = -1], i + 1, a)
       ELSE RecomputeBlock(eb, i + 1,
              [numEdges |-> a.numEdges + 1,
               high |-> IF i > a.high THEN i ELSE a.high,
               small |-> IF eb.edges[i].timeFirst < a.small
                         THEN eb.edges[i].timeFirst ELSE a.small,
               large |-> IF eb.edges[i].timeRecent > a.large
                         THEN eb.edges[i].timeRecent ELSE a.large])

RECURSIVE RecomputeChain(_, _)
(* lines 832-863 *)
RecomputeChain(pool, cur) ==
  IF cur # 0 /\ pool[cur].etype = type
  THEN RecomputeChain(
         [pool EXCEPT ![cur] =
            RecomputeBlock(pool[cur], 0,
              [large |-> INT64_MIN, small |-> INT64_MAX, numEdges |-> 0, high |-> 0])],
         pool[cur].next)
  ELSE pool

SeRecompute ==
  /\ pcSE = "recompute"
  /\ ebpool' = RecomputeChain(ebpool, seStart)
  /\ pcSE' = "done"
  /\ UNCHANGED <<STINGER_EDGEBLOCKSIZE, ebpool0, vertexEdges, type, seStart, sorted>>
  /\ Frame("se")

SeNext ==
  \/ SeFindStart
  \/ SeSweepOdd
  \/ SeSweepEven
  \/ SeRecompute

RECURSIVE ChainFrom(_, _)
(* The blocks the pass processes, in chain order. *)
ChainFrom(pool, cur) ==
  IF cur # 0 /\ pool[cur].etype = type
  THEN <<cur>> \o ChainFrom(pool, pool[cur].next)
  ELSE <<>>

Processed == ChainFrom(ebpool, seStart)

(* The slots of the processed chain as one logical array, 1-indexed. *)
Logical(pool, chain) ==
  [p \in 1 .. Len(chain) * STINGER_EDGEBLOCKSIZE |->
     pool[chain[((p - 1) \div STINGER_EDGEBLOCKSIZE) + 1]]
       .edges[(p - 1) % STINGER_EDGEBLOCKSIZE]]

LiveSlot(e) == e.neighbor >= 0

(* C9: stinger_sort_edge_list ends with the slots of the chain, read in    *)
(* chain order as one logical array, ascending by neighbour id with        *)
(* tombstoned and never-used slots last: every live edge precedes every    *)
(* tombstone or unused slot and the live neighbours are non-decreasing.    *)
C9_SortedLiveFirst ==
  pcSE = "done" =>
    LET a == Logical(ebpool, Processed)
    IN \A p, q \in DOMAIN a :
         p < q => /\ ~(~LiveSlot(a[p]) /\ LiveSlot(a[q]))
                  /\ (LiveSlot(a[p]) /\ LiveSlot(a[q]))
                       => a[p].neighbor <= a[q].neighbor

(* The same statement for chains that hold no edge with neighbour 0,      *)
(* weight 0 and both timestamps 0 below any high-water mark. *)
SortedLiveFirstWithoutZeroEdges ==
  (pcSE = "done" /\ \A b \in DOMAIN ebpool0 : \A i \in 0 .. ebpool0[b].high - 1 :
                      ebpool0[b].edges[i] # UnusedSlot)
    => LET a == Logical(ebpool, Processed)
       IN \A p, q \in DOMAIN a : p < q => ~(~LiveSlot(a[p]) /\ LiveSlot(a[q]))

(* What the pass does establish: the live neighbours are non-decreasing    *)
(* in chain order, and no live edge with neighbour > 0 precedes a blank.   *)
SortedLiveLast ==
  pcSE = "done" =>
    LET a == Logical(ebpool, Processed)
    IN \A p, q \in DOMAIN a :
         p < q => /\ (LiveSlot(a[p]) /\ LiveSlot(a[q]))
                       => a[p].neighbor <= a[q].neighbor
                  /\ ~(LiveSlot(a[p]) /\ a[p].neighbor > 0 /\ ~LiveSlot(a[q]))

LiveIn(eb) == {i \in 0 .. STINGER_EDGEBLOCKSIZE - 1 : ~stinger_eb_is_blank(eb, i)}

(* C10: after stinger_sort_edge_list every block of the processed chain    *)
(* has numEdges = number of live slots, high <= capacity, numEdges <= high,*)
(* no live slot at an index >= high, high = one past the highest live slot *)
(* and smallStamp / largeStamp = the minimum timeFirst / maximum           *)
(* timeRecent over its live edges.                                         *)
C10_BlockSummaries ==
  pcSE = "done" =>
    \A c \in 1 .. Len(Processed) :
      LET eb == ebpool[Processed[c]]
          live == LiveIn(eb)
      IN /\ eb.numEdges = Cardinality(live)
         /\ eb.high <= STINGER_EDGEBLOCKSIZE
         /\ eb.numEdges <= eb.high
         /\ \A i \in live : i < eb.high
         /\ live # {} =>
              /\ eb.high = Maximum(live) + 1
              /\ eb.smallStamp = Minimum({eb.edges[i].timeFirst : i \in live})
              /\ eb.largeStamp = Maximum({eb.edges[i].timeRecent : i \in live})

(* A finished pass over two blocks that exchanged slots, one block left    *)
(* without a live edge, the other with two live edges of different stamps. *)
C10_Witness ==
  /\ pcSE = "done"
  /\ Len(Processed) = 2
  /\ ebpool[1].edges # ebpool0[1].edges
  /\ \E c \in 1 .. 2 : LiveIn(ebpool[Processed[c]]) = {}
  /\ \E c \in 1 .. 2 :
       LET eb == ebpool[Processed[c]]
       IN /\ eb.numEdges = 2
          /\ eb.smallStamp = 0
          /\ eb.largeStamp = 2
          /\ eb.high = STINGER_EDGEBLOCKSIZE

(* The logical positions of the chain that hold a live edge at the call:   *)
(* below the high-water mark of their block and not a tombstone.           *)
LiveAtCall ==
  {p \in DOMAIN Logical(ebpool0, Processed) :
     /\ (p - 1) % STINGER_EDGEBLOCKSIZE
          < ebpool0[Processed[((p - 1) \div STINGER_EDGEBLOCKSIZE) + 1]].high
     /\ LiveSlot(Logical(ebpool0, Processed)[p])}

LiveAtEnd ==
  {p \in DOMAIN Logical(ebpool, Processed) : LiveSlot(Logical(ebpool, Processed)[p])}

(* The chain holds edge e as often after the pass as at the call. *)
Preserved(e) ==
  Cardinality({p \in LiveAtCall : Logical(ebpool0, Processed)[p] = e})
    = Cardinality({p \in LiveAtEnd : Logical(ebpool, Processed)[p] = e})

(* C19: stinger_sort_edge_list, run alone, ends with the multiset of the   *)
(* (neighbour, weight, timeFirst, timeRecent) records of the live edges of *)
(* the chain as it was at the call; no live edge, the edge to neighbour 0  *)
(* with weight 0 and both timestamps 0 included, becomes a tombstone.      *)
C19_LiveEdgesPreserved ==
  pcSE = "done" => \A e \in SeSlots : LiveSlot(e) => Preserved(e)

(* The same, for the edges that are not all-zero. *)
NonZeroEdgesPreserved ==
  pcSE = "done" =>
    \A e \in SeSlots : (LiveSlot(e) /\ e # UnusedSlot) => Preserved(e)

(* Every run of the pass ends. *)
SortPassEnds == <>(pcSE = "done")

----------------------------------------------------------------------------
(* stinger_to_unsorted_csr (lines 503-557) and stinger_to_sorted_csr       *)
(* (lines 440-481), with csr_cmp and copy_metadata_based_on_pointer_array. *)
(* The store they read (stinger_outdegree_get, stinger_gather_successors,  *)
(* the insert and delete of an edge) is outside this file and is taken     *)
(* from the design: a vertex owns a chain of slots, a slot whose neighbor  *)
(* is -1 is a tombstone, and the out-degree counter counts the live slots. *)

(* An int64_t vertex id is kept as <<hi, lo>>, of value hi * 2^30 + lo     *)
(* with 0 <= lo < 2^30.                                                    *)
Base == 2 ^ 30

Id(v) == <<0, v>>

MinusOne == <<-1, Base - 1>>

WideLeq(a, b) == a[1] < b[1] \/ (a[1] = b[1] /\ a[2] <= b[2])

WideSub(a, b) ==
  LET dh == a[1] - b[1]
      dl == a[2] - b[2]
  IN IF dl < 0 THEN <<dh - 1, dl + Base>> ELSE <<dh, dl>>

(* Conversion of an int64_t to int: the low 32 bits, two's complement.     *)
ToInt(w) ==
  LET q == w[1] % 4
  IN CASE q = 0 -> w[2]
       [] q = 1 -> Base + w[2]
       [] q = 2 -> (w[2] - Base) - Base
       [] q = 3 -> w[2] - Base

(* csr_cmp on the two ids its arguments point to: the int64_t difference,  *)
(* returned as int.                                                        *)
csr_cmp(a, b) == ToInt(WideSub(a, b))

StoreEdge(nbr, w, tf, tr, ty) ==
  [neighbor |-> nbr, weight |-> w, timeFirst |-> tf, timeRecent |-> tr,
   etype |-> ty]

Deleted == StoreEdge(MinusOne, 5, 3, 3, 0)

IsLive(e) == e.neighbor[1] >= 0

(* Slots a chain of vertex 0 holds: edges to 0, to 1 (twice, one per type) *)
(* and to 2^31, and a tombstone.                                           *)
CsrSlots ==
  { StoreEdge(Id(0), 1, 1, 1, 0), StoreEdge(Id(1), 2, 1, 2, 0),
    StoreEdge(Id(1), 3, 2, 3, 1), StoreEdge(<<2, 0>>, 4, 2, 2, 0), Deleted }

(* Slots a chain of another vertex holds. *)
CsrSlotsRest == { StoreEdge(Id(0), 6, 4, 4, 0), Deleted }

CsrVertices == {0, 1}

CsrNv == Cardinality(CsrVertices)

MetaNames == {"weight", "timefirst", "timerecent", "type"}

CsrWants == { {}, MetaNames }

Field(e, a) ==
  CASE a = "weight" -> e.weight
    [] a = "timefirst" -> e.timeFirst
    [] a = "timerecent" -> e.timeRecent
    [] a = "type" -> e.etype

SeqsUpTo(S, len) == UNION {[1 .. l -> S] : l \in 0 .. len}

Successors(v) == SelectSeq(adj[v], IsLive)

stinger_outdegree_get(v) == outdeg[v]

CsrInit ==
  /\ \E first \in SeqsUpTo(CsrSlots, MaxSlots) :
       \E rest \in SeqsUpTo(CsrSlotsRest, MaxSlots - Len(first)) :
         adj = [v \in CsrVertices |-> IF v = 0 THEN first ELSE rest]
  /\ outdeg = [v \in CsrVertices |-> Len(SelectSeq(adj[v], IsLive))]
  /\ want \in CsrWants
  /\ off = Fresh(CsrNv + 1)
  /\ ind = NULL
  /\ meta = NULL
  /\ csrI = 0
  /\ degRead = [v \in CsrVertices |-> -1]
  /\ gathered = [v \in CsrVertices |-> -1]
  /\ pcG = [v \in CsrVertices |-> "wait"]
  /\ pcS = [v \in CsrVertices |-> "wait"]
  /\ unsorted = NULL
  /\ mutated = FALSE
  /\ touched = {}
  /\ pcCSR = "degrees"
  /\ OthersIdle("csr")

(* Lines 518-519: one iteration of the degree loop. *)
CsrReadDegree ==
  /\ pcCSR = "degrees"
  /\ csrI < CsrNv
  /\ off' = [off EXCEPT ![csrI] = stinger_outdegree_get(csrI)]
  /\ degRead' = [degRead EXCEPT ![csrI] = stinger_outdegree_get(csrI)]
  /\ csrI' = csrI + 1
  /\ UNCHANGED <<adj, outdeg, want, ind, meta, gathered, pcG, pcS, unsorted,
                 mutated, touched, pcCSR>>
  /\ Frame("csr")

RECURSIVE CsrScanLoopInclusive(_, _, _)
RECURSIVE CsrScanLoop(_, _, _)
(* Lines 521-527: the loop that turns the degrees into offsets. *)
CsrScanLoopInclusive(o, i, t) ==
  IF i < CsrNv
    THEN CsrScanLoopInclusive([o EXCEPT ![i] = t + o[i]], i + 1, t + o[i])
    ELSE [o EXCEPT ![CsrNv] = t]

CsrScanLoop(o, i, t) ==
  IF i < CsrNv
    THEN CsrScanLoop([o EXCEPT ![i] = t], i + 1, t + o[i])
    ELSE [o EXCEPT ![CsrNv] = t]

(* Lines 521-533: the offsets, then the allocation of the output arrays.   *)
CsrScan ==
  /\ pcCSR = "degrees"
  /\ csrI = CsrNv
  /\ off' = CsrScanLoop(off, 0, 0)
  /\ ind' = [p \in 0 .. off'[CsrNv] - 1 |-> Id(0)]
  /\ meta' = [a \in want |-> Fresh(off'[CsrNv])]
  /\ pcG' = [v \in CsrVertices |-> "todo"]
  /\ pcCSR' = "gather"
  /\ UNCHANGED <<adj, outdeg, want, csrI, degRead, gathered, pcS, unsorted,
                 mutated, touched>>
  /\ Frame("csr")

(* Line 539 and the &ind[o] of line 541. *)
SliceBase(v) == off[v]

(* Lines 542-545: where the metadata of vertex v goes. *)
MetaBaseZero(v) == 0

MetaBase(v) == off[v]

(* Line 548, with assertions compiled in. *)
AssertDisabled(d, md) == TRUE

AssertHolds(d, md) == d = md

(* stinger_gather_successors into the slice at base: at most md entries.   *)
GatherInto(a, base, vals, md) ==
  LET cnt == IF Len(vals) < md THEN Len(vals) ELSE md
  IN [p \in DOMAIN a |->
        IF p >= base /\ p < base + cnt THEN vals[p - base + 1] ELSE a[p]]

Neighbors(es) == [j \in DOMAIN es |-> es[j].neighbor]

Fields(es, a) == [j \in DOMAIN es |-> Field(es[j], a)]

(* Lines 538-548: one iteration of the gather loop. *)
CsrGather(v) ==
  /\ pcCSR = "gather"
  /\ pcG[v] = "todo"
  /\ LET o == SliceBase(v)
         md == off[v + 1] - o
         es == Successors(v)
         d == Len(es)
     IN /\ ind' = GatherInto(ind, o, Neighbors(es), md)
        /\ meta' = [a \in want |->
                      GatherInto(meta[a], MetaBase(v), Fields(es, a), md)]
        /\ gathered' = [gathered EXCEPT ![v] = d]
        /\ pcG' = [pcG EXCEPT ![v] = "done"]
        /\ pcCSR' = IF AssertHolds(d, md) THEN pcCSR ELSE "abort"
  /\ UNCHANGED <<adj, outdeg, want, off, csrI, degRead, pcS, unsorted,
                 mutated, touched>>
  /\ Frame("csr")

(* Lines 551-556: the arrays are handed to the caller. *)
CsrReturn ==
  /\ pcCSR = "gather"
  /\ \A v \in CsrVertices : pcG[v] = "done"
  /\ unsorted' = [off |-> off, ind |-> ind, meta |-> meta]
  /\ pcCSR' = "returned"
  /\ UNCHANGED <<adj, outdeg, want, off, ind, meta, csrI, degRead, gathered,
                 pcG, pcS, mutated, touched>>
  /\ Frame("csr")

(* Line 445: the caller was stinger_to_sorted_csr. *)
CsrSortBegin ==
  /\ pcCSR = "returned"
  /\ pcS' = [v \in CsrVertices |-> "todo"]
  /\ pcCSR' = "sorting"
  /\ UNCHANGED <<adj, outdeg, want, off, ind, meta, csrI, degRead, gathered,
                 pcG, unsorted, mutated, touched>>
  /\ Frame("csr")

Sign(c) == IF c < 0 THEN -1 ELSE IF c > 0 THEN 1 ELSE 0

(* csr_cmp is a consistent ordering of the ids of vals. *)
ConsistentCmp(vals) ==
  LET S == {vals[j] : j \in DOMAIN vals}
  IN /\ \A a, b \in S : Sign(csr_cmp(a, b)) = -Sign(csr_cmp(b, a))
     /\ \A a, b, c \in S :
          csr_cmp(a, b) <= 0 /\ csr_cmp(b, c) <= 0 => csr_cmp(a, c) <= 0

Perms(d) == {f \in [1 .. d -> 1 .. d] : \A i, j \in 1 .. d : f[i] = f[j] => i = j}

(* Line 457: qsort of the pointers, as the order in which the sorted array *)
(* lists the positions of the slice.  Equal ids come out in any order; a   *)
(* comparison that is not a consistent ordering leaves the order open.     *)
QsortPointers(vals) ==
  LET d == Len(vals)
  IN IF ConsistentCmp(vals)
       THEN {f \in Perms(d) :
               \A j \in 1 .. d - 1 : csr_cmp(vals[f[j]], vals[f[j + 1]]) <= 0}
       ELSE Perms(d)

(* Lines 412-417; pointers[i] - base is the position pointers[i] points to *)
(* inside the slice.                                                       *)
copy_metadata_based_on_pointer_array(count, metadata, ofs, pointers, base) ==
  LET buffer == [i \in 0 .. count - 1 |->
                   metadata[ofs + (pointers[i] - base)]]
  IN [p \in DOMAIN metadata |->
        IF p >= ofs /\ p < ofs + count THEN buffer[p - ofs]
        ELSE metadata[p]]

(* Lines 448-479: one iteration of the sort loop. *)
CsrSortVertex(v) ==
  /\ pcCSR = "sorting"
  /\ pcS[v] = "todo"
  /\ LET start_offset == off[v]
         degree == off[v + 1] - start_offset
         vals == [j \in 1 .. degree |-> ind[start_offset + j - 1]]
     IN \E f \in QsortPointers(vals) :
          LET pointers == [j \in 0 .. degree - 1 |->
                             start_offset + f[j + 1] - 1]
              tmp_buffer == [j \in 0 .. degree - 1 |-> ind[pointers[j]]]
          IN /\ ind' = [p \in DOMAIN ind |->
                          IF p >= start_offset /\ p < start_offset + degree
                            THEN tmp_buffer[p - start_offset] ELSE ind[p]]
             /\ meta' = [a \in want |->
                           copy_metadata_based_on_pointer_array(
                             degree, meta[a], start_offset, pointers,
                             start_offset)]
  /\ pcS' = [pcS EXCEPT ![v] = "done"]
  /\ UNCHANGED <<adj, outdeg, want, off, csrI, degRead, gathered, pcG,
                 unsorted, mutated, touched, pcCSR>>
  /\ Frame("csr")

(* Line 481: stinger_to_sorted_csr returns. *)
CsrSortedReturn ==
  /\ pcCSR = "sorting"
  /\ \A v \in CsrVertices : pcS[v] = "done"
  /\ pcCSR' = "sorted"
  /\ UNCHANGED <<adj, outdeg, want, off, ind, meta, csrI, degRead, gathered,
                 pcG, pcS, unsorted, mutated, touched>>
  /\ Frame("csr")

(* The extraction is between its degree loop and the end of its gather.    *)
Extracting == pcCSR \in {"degrees", "gather"}

(* Vertex v's degree has been read and its gather has not run yet. *)
BetweenSteps(v) == csrI > v /\ pcG[v] # "done"

Mutate(v) ==
  /\ mutated' = TRUE
  /\ touched' = IF BetweenSteps(v) THEN touched \cup {v} ELSE touched

(* The edge a concurrent mutator inserts. *)
Inserted == StoreEdge(Id(1), 7, 5, 5, 0)

(* The first of the slot indexes hits, 0 when there is none. *)
FirstIndex(hits) ==
  IF hits = {} THEN 0 ELSE CHOOSE j \in hits : \A h \in hits : j <= h

SameEdge(e) == IsLive(e) /\ e.neighbor = Inserted.neighbor /\ e.etype = Inserted.etype

IsDeleted(e) == ~IsLive(e)

(* A mutator inserts or updates an edge of v while the extraction runs.    *)
StoreInsert(v) ==
  /\ Extracting
  /\ ~mutated
  /\ LET found == FirstIndex({j \in DOMAIN adj[v] : SameEdge(adj[v][j])})
         free == FirstIndex({j \in DOMAIN adj[v] : IsDeleted(adj[v][j])})
     IN IF found # 0
          THEN /\ adj' = [adj EXCEPT ![v][found].weight = Inserted.weight,
                                     ![v][found].timeRecent = Inserted.timeRecent]
               /\ outdeg' = outdeg
          ELSE /\ adj' = [adj EXCEPT ![v] = IF free # 0
                                              THEN [@ EXCEPT ![free] = Inserted]
                                              ELSE Append(@, Inserted)]
               /\ outdeg' = [outdeg EXCEPT ![v] = @ + 1]
  /\ Mutate(v)
  /\ UNCHANGED <<want, off, ind, meta, csrI, degRead, gathered, pcG, pcS,
                 unsorted, pcCSR>>
  /\ Frame("csr")

(* A mutator deletes the edge in slot j of v while the extraction runs.    *)
StoreDelete(v, j) ==
  /\ Extracting
  /\ ~mutated
  /\ j \in DOMAIN adj[v]
  /\ IsLive(adj[v][j])
  /\ adj' = [adj EXCEPT ![v][j].neighbor = MinusOne]
  /\ outdeg' = [outdeg EXCEPT ![v] = @ - 1]
  /\ Mutate(v)
  /\ UNCHANGED <<want, off, ind, meta, csrI, degRead, gathered, pcG, pcS,
                 unsorted, pcCSR>>
  /\ Frame("csr")

CsrNext ==
  \/ CsrReadDegree
  \/ CsrScan
  \/ \E v \in CsrVertices : CsrGather(v)
  \/ CsrReturn
  \/ CsrSortBegin
  \/ \E v \in CsrVertices : CsrSortVertex(v)
  \/ CsrSortedReturn
  \/ \E v \in CsrVertices : StoreInsert(v)
  \/ \E v \in CsrVertices, j \in 1 .. MaxSlots : StoreDelete(v, j)

(* The snapshot arrays, one row per position of the slice of vertex v: the *)
(* neighbour and the value of every requested metadata array.              *)
Rows(o, i, m, v) ==
  [j \in 1 .. o[v + 1] - o[v] |->
     <<i[o[v] + j - 1], [a \in want |-> m[a][o[v] + j - 1]]>>]

(* The live edges of vertex v in the store, as such rows. *)
LiveRows(v) ==
  [j \in DOMAIN Successors(v) |->
     <<Successors(v)[j].neighbor, [a \in want |-> Field(Successors(v)[j], a)]>>]

OffsetsBuilt == pcCSR \notin {Idle, "degrees"}

(* C4: once stinger_to_unsorted_csr has built the offsets, and so in the   *)
(* snapshot it returns, off[0] = 0, off[v] <= off[v+1] and off[v+1]-off[v] *)
(* is the out-degree read for v, for every vertex v < nv; when the store   *)
(* was not mutated during the call, off[nv] is the number of live edges of *)
(* the vertices 0..nv-1.                                                   *)
C4_UnsortedOffsets ==
  OffsetsBuilt =>
    /\ off[0] = 0
    /\ \A v \in CsrVertices :
         /\ off[v] <= off[v + 1]
         /\ off[v + 1] - off[v] = degRead[v]
    /\ ~mutated =>
         off[CsrNv] = SumRange([v \in CsrVertices |-> Len(Successors(v))],
                               0, CsrNv)

(* A snapshot returned from a quiet store with a tombstone in the chain of *)
(* vertex 0 and live edges at both vertices.                               *)
C4_Witness ==
  /\ pcCSR = "returned"
  /\ ~mutated
  /\ \E j \in DOMAIN adj[0] : ~IsLive(adj[0][j])
  /\ off[1] >= 1
  /\ off[CsrNv] > off[1]

(* C5: when the store is not mutated during the call, the snapshot         *)
(* stinger_to_unsorted_csr returns holds for every vertex v < nv, in       *)
(* ind[off[v]..off[v+1]), exactly the multiset of the live out-neighbours  *)
(* of v, and every requested metadata array holds at each index the value  *)
(* of the edge ind holds at that index.                                    *)
C5_UnsortedSlices ==
  (pcCSR = "returned" /\ ~mutated) =>
    \A v \in CsrVertices : Permutation(Rows(off, ind, meta, v), LiveRows(v))

(* A snapshot with all metadata requested, returned from a quiet store in  *)
(* which vertex 0 has an edge behind a tombstone and vertex 1 has an edge. *)
C5_Witness ==
  /\ pcCSR = "returned"
  /\ ~mutated
  /\ want = MetaNames
  /\ Len(adj[0]) = 2
  /\ ~IsLive(adj[0][1])
  /\ IsLive(adj[0][2])
  /\ Len(Successors(1)) = 1
  /\ ind[1] = adj[1][1].neighbor
  /\ meta["weight"][1] = adj[1][1].weight

(* C8: the extraction is in the assertion-failure state, with no snapshot  *)
(* returned, exactly when the gather of some vertex reported a count that  *)
(* differs from the degree read for that vertex; a vertex whose edges were *)
(* not changed between its degree read and its gather passes the assert.   *)
C8_GatherAssertion ==
  /\ pcCSR = "abort" <=>
       \E v \in CsrVertices : pcG[v] = "done" /\ gathered[v] # degRead[v]
  /\ pcCSR = "abort" => unsorted = NULL
  /\ \A v \in CsrVertices :
       (pcG[v] = "done" /\ v \notin touched) => gathered[v] = degRead[v]

(* An edge of one vertex changed between its degree read and its gather    *)
(* and the extraction aborted, after the gather of the other vertex, which *)
(* has an edge, passed the assertion.                                      *)
C8_Witness ==
  /\ pcCSR = "abort"
  /\ \E v \in touched : pcG[v] = "done" /\ gathered[v] # degRead[v]
  /\ \E u \in CsrVertices \ touched :
       pcG[u] = "done" /\ gathered[u] = degRead[u] /\ degRead[u] >= 1

SortedRows(v) ==
  /\ \A p \in off[v] .. off[v + 1] - 2 : WideLeq(ind[p], ind[p + 1])
  /\ Permutation(Rows(off, ind, meta, v),
                 Rows(unsorted.off, unsorted.ind, unsorted.meta, v))

(* C6: stinger_to_sorted_csr returns the offsets of the unsorted           *)
(* extraction and, for every vertex v, a slice ind[off[v]..off[v+1]) that  *)
(* is non-decreasing and a permutation of the unsorted slice, every        *)
(* requested metadata array permuted with it, also when a vertex has       *)
(* several edges to one neighbour.                                         *)
C6_SortedCsr ==
  pcCSR = "sorted" =>
    /\ off = unsorted.off
    /\ \A v \in CsrVertices : SortedRows(v)

(* The same, for snapshots all of whose neighbour ids are below 2^30.      *)
SortedCsrOfNarrowIds ==
  (pcCSR = "sorted" /\ \A p \in DOMAIN ind : ind[p][1] = 0) =>
    /\ off = unsorted.off
    /\ \A v \in CsrVertices : SortedRows(v)

----------------------------------------------------------------------------
(* counting_sort (lines 566-595), items of size 1.  The int64_t values are *)
(* kept as <<hi, lo>> pairs, so that the int width of range shows.         *)

(* Values of the items: -1, 0, 1, 2^31 and 2^32. *)
CntVals == {MinusOne, Id(0), Id(1), <<2, 0>>, <<4, 0>>}

(* a + m for a small m >= 0. *)
WideAdd(a, m) ==
  IF a[2] + m >= Base THEN <<a[1] + 1, a[2] + m - Base>> ELSE <<a[1], a[2] + m>>

WideLess(a, b) == WideLeq(a, b) /\ a # b

CntInit ==
  \E nn \in 0 .. MaxCount :
    /\ cntNum = nn
    /\ cntArray \in [0 .. nn - 1 -> CntVals]
    /\ cntArray0 = cntArray
    /\ cntMin = Id(0)
    /\ cntMax = Id(0)
    /\ cntRange = 0
    /\ cntCount = <<>>
    /\ accessed = {}
    /\ pcCnt = "minmax"
    /\ OthersIdle("cnt")

RECURSIVE CntMinMaxLoop(_, _, _)
(* Lines 572-577: the loop over array[1 .. num-1]; the result is the pair  *)
(* <<min, max>>.                                                           *)
CntMinMaxLoop(a, i, mm) ==
  IF i >= cntNum THEN mm
  ELSE CntMinMaxLoop(a, i + 1,
         IF WideLess(a[i], mm[1]) THEN <<a[i], mm[2]>>
         ELSE IF WideLess(mm[2], a[i]) THEN <<mm[1], a[i]>>
         ELSE mm)

(* Lines 570-577.  Line 570 reads array[0] whatever num is; with num = 0   *)
(* that word is outside the array and its value is anything.               *)
CntMinMax ==
  /\ pcCnt = "minmax"
  /\ \E word \in (IF cntNum >= 1 THEN {cntArray[0]} ELSE CntVals) :
       LET mm == CntMinMaxLoop(cntArray, 1, <<word, word>>)
       IN /\ cntMin' = mm[1]
          /\ cntMax' = mm[2]
  /\ accessed' = accessed \cup {0} \cup (0 .. cntNum - 1)
  /\ pcCnt' = "alloc"
  /\ UNCHANGED <<cntArray, cntArray0, cntNum, cntRange, cntCount>>
  /\ Frame("cnt")

(* max - min + 1 as an int64_t. *)
CntSpan == WideAdd(WideSub(cntMax, cntMin), 1)

(* Lines 579-583: int range = max - min + 1, the allocation of range       *)
(* counters and their zeroing.  When the int does not hold max - min + 1   *)
(* the counters allocated are not the ones line 586 increments.            *)
CntAlloc ==
  /\ pcCnt = "alloc"
  /\ cntRange' = ToInt(CntSpan)
  /\ IF Id(cntRange') = CntSpan
       THEN /\ cntCount' = Fresh(cntRange')
            /\ pcCnt' = "histogram"
       ELSE /\ cntCount' = cntCount
            /\ pcCnt' = "overflow"
  /\ UNCHANGED <<cntArray, cntArray0, cntNum, cntMin, cntMax, accessed>>
  /\ Frame("cnt")

RECURSIVE CntHistogramLoop(_, _)
(* Lines 585-586: count[array[i] - min]++. *)
CntHistogramLoop(i, c) ==
  IF i >= cntNum THEN c
  ELSE LET b == WideSub(cntArray[i], cntMin)[2]
       IN CntHistogramLoop(i + 1, [c EXCEPT ![b] = c[b] + 1])

CntHistogram ==
  /\ pcCnt = "histogram"
  /\ cntCount' = CntHistogramLoop(0, cntCount)
  /\ accessed' = accessed \cup (0 .. cntNum - 1)
  /\ pcCnt' = "emit"
  /\ UNCHANGED <<cntArray, cntArray0, cntNum, cntMin, cntMax, cntRange>>
  /\ Frame("cnt")

RECURSIVE CntEmitLoop(_, _, _)
(* Lines 588-591: for i = min .. max, cntCount[i - min] times array[z++] = i; *)
(* b is i - min.                                                           *)
CntEmitLoop(a, b, z) ==
  IF b >= cntRange THEN a
  ELSE CntEmitLoop([p \in DOMAIN a |->
                      IF p >= z /\ p < z + cntCount[b] THEN WideAdd(cntMin, b)
                      ELSE a[p]],
                   b + 1, z + cntCount[b])

CntEmit ==
  /\ pcCnt = "emit"
  /\ cntArray' = CntEmitLoop(cntArray, 0, 0)
  /\ accessed' = accessed \cup (0 .. SumRange(cntCount, 0, cntRange) - 1)
  /\ pcCnt' = "done"
  /\ UNCHANGED <<cntArray0, cntNum, cntMin, cntMax, cntRange, cntCount>>
  /\ Frame("cnt")

(* Line 580 or 586 with a range that is not max - min + 1: the allocation  *)
(* fails or a counter outside the allocation is written, and the call      *)
(* crashes.                                                                *)
CntCrash ==
  /\ pcCnt = "overflow"
  /\ pcCnt' = "fault"
  /\ UNCHANGED <<cntArray, cntArray0, cntNum, cntMin, cntMax, cntRange, cntCount,
                 accessed>>
  /\ Frame("cnt")

(* The same, when the writes outside the allocation go unnoticed: what the *)
(* array then holds is open.                                               *)
CntCorrupt ==
  /\ pcCnt = "overflow"
  /\ cntArray' \in [0 .. cntNum - 1 -> CntVals]
  /\ accessed' = accessed \cup (0 .. cntNum - 1)
  /\ pcCnt' = "done"
  /\ UNCHANGED <<cntArray0, cntNum, cntMin, cntMax, cntRange, cntCount>>
  /\ Frame("cnt")

CntNext ==
  \/ CntMinMax
  \/ CntAlloc
  \/ CntHistogram
  \/ CntEmit
  \/ CntCrash
  \/ CntCorrupt

(* An array on 0 .. len-1 as a sequence. *)
AsSeq(a, len) == [j \in 1 .. len |-> a[j - 1]]

CntEnded == pcCnt \in {"done", "fault"}

CntSorted ==
  /\ pcCnt = "done"
  /\ \A p \in 0 .. cntNum - 2 : WideLeq(cntArray[p], cntArray[p + 1])
  /\ Permutation(AsSeq(cntArray, cntNum), AsSeq(cntArray0, cntNum))

(* C11: counting_sort on a non-empty array of num integers ends with the   *)
(* array in ascending order and a permutation of the input, negative       *)
(* values included.                                                        *)
C11_CountingSort == (cntNum >= 1 /\ CntEnded) => CntSorted

(* The same, for arrays whose values all lie in -1 .. 1. *)
CountingSortOfSmallRange ==
  (/\ cntNum >= 1
   /\ CntEnded
   /\ \A p \in 0 .. cntNum - 1 : cntArray0[p] \in {MinusOne, Id(0), Id(1)})
  => CntSorted

(* C12: a call on an empty array returns at once, having read and written  *)
(* no array element.  Stated for counting_sort; prefix_sum,                *)
(* bucket_sort_pairs and radix_sort_pairs read ary[n-1], array[0] and x[1] *)
(* in the same way.                                                        *)
C12_EmptyArrayCalls == cntNum = 0 => accessed = {}

----------------------------------------------------------------------------
(* find_in_sorted (lines 1143-1170).                                       *)

(* Values of the array and values looked for. *)
FsVals == {0, 2, 4}
FsKeys == -1 .. 5

FsLengths == -1 .. MaxLen

NonDecreasing(a, len) == \A p \in 0 .. len - 2 : a[p] <= a[p + 1]

FsInit ==
  \E nn \in FsLengths :
    /\ N = nn
    /\ tofind \in FsKeys
    /\ fsAry \in {a \in [0 .. nn - 1 -> FsVals] : NonDecreasing(a, nn)}
    /\ top = 0
    /\ bot = 0
    /\ out = -1
    /\ pcFS = "entry"
    /\ OthersIdle("fs")

(* Lines 1147-1156: N <= 0, then the two ends of the array. *)
FsEntry ==
  /\ pcFS = "entry"
  /\ IF N <= 0
       THEN out' = -1 /\ pcFS' = "done" /\ UNCHANGED <<top, bot>>
       ELSE IF tofind = fsAry[0]
         THEN out' = 0 /\ pcFS' = "done" /\ top' = N - 1 /\ bot' = 0
         ELSE IF tofind = fsAry[N - 1]
           THEN out' = N - 1 /\ pcFS' = "done" /\ top' = N - 1 /\ bot' = 0
           ELSE out' = out /\ pcFS' = "while" /\ top' = N - 1 /\ bot' = 0
  /\ UNCHANGED <<tofind, N, fsAry>>
  /\ Frame("fs")

(* Line 1161: the test that sends the search to the lower half. *)
FsBelowReversed(m) == tofind > fsAry[m]

FsBelow(m) == tofind < fsAry[m]

(* Lines 1157-1165: one iteration of the while loop. *)
FsHalve ==
  /\ pcFS = "while"
  /\ top - bot + 1 > 4
  /\ LET mid == bot + CDiv(top - bot, 2)
     IN IF tofind = fsAry[mid]
          THEN out' = mid /\ pcFS' = "done" /\ UNCHANGED <<top, bot>>
          ELSE /\ IF FsBelow(mid)
                    THEN top' = mid /\ bot' = bot
                    ELSE bot' = mid /\ top' = top
               /\ UNCHANGED <<out, pcFS>>
  /\ Frame("fs")
  /\ UNCHANGED <<tofind, N, fsAry>>
  /\ Frame("fs")

(* Line 1157: the while loop ends. *)
FsWhileExit ==
  /\ pcFS = "while"
  /\ ~(top - bot + 1 > 4)
  /\ pcFS' = "for"
  /\ UNCHANGED <<tofind, N, fsAry, top, bot, out>>
  /\ Frame("fs")

(* Lines 1166-1168: one iteration of the for loop. *)
FsStep ==
  /\ pcFS = "for"
  /\ bot <= top
  /\ IF tofind = fsAry[bot]
       THEN out' = bot /\ pcFS' = "done" /\ bot' = bot
       ELSE bot' = bot + 1 /\ UNCHANGED <<out, pcFS>>
  /\ UNCHANGED <<tofind, N, fsAry, top>>
  /\ Frame("fs")

(* Line 1169: return -1. *)
FsNotFound ==
  /\ pcFS = "for"
  /\ bot > top
  /\ out' = -1
  /\ pcFS' = "done"
  /\ UNCHANGED <<tofind, N, fsAry, top, bot>>
  /\ Frame("fs")

FsNext ==
  \/ FsEntry
  \/ FsHalve
  \/ FsWhileExit
  \/ FsStep
  \/ FsNotFound

FsResult ==
  pcFS = "done" =>
    /\ out = -1 <=> ~(\E p \in 0 .. N - 1 : fsAry[p] = tofind)
    /\ out # -1 => out \in 0 .. N - 1 /\ fsAry[out] = tofind

(* C13: on an array in non-decreasing order find_in_sorted terminates for  *)
(* every N, returns -1 exactly when tofind is not in ary[0..N-1] (so for   *)
(* N <= 0), and otherwise an index i in 0..N-1 with ary[i] = tofind, also  *)
(* when the value occurs several times.                                    *)
C13_FindInSorted == []FsResult /\ <>(pcFS = "done")

(* A search that halved the range and returned the index of a value the   *)
(* array holds more than once.                                             *)
C13_Witness ==
  /\ pcFS = "done"
  /\ (top < N - 1 \/ bot > 0)
  /\ out # -1
  /\ \E p \in 0 .. N - 1 : p # out /\ fsAry[p] = tofind

----------------------------------------------------------------------------
(* i64_cmp (lines 1101-1107), on int64_t values kept as <<hi, lo>> pairs.  *)

(* -2^32, -2^31, -1, 0, 1, 2, 2^30, 2^31, 2^32 and 2^32 + 1. *)
I64Vals ==
  {<<-4, 0>>, <<-2, 0>>, MinusOne, Id(0), Id(1), Id(2), <<1, 0>>, <<2, 0>>,
   <<4, 0>>, <<4, 1>>}

IcInit ==
  /\ va \in I64Vals
  /\ vb \in I64Vals
  /\ icRet = 0
  /\ pcIC = "call"
  /\ OthersIdle("ic")

(* Lines 1104-1106: return va - vb, the int64_t difference as an int. *)
i64_cmp(a, b) == ToInt(WideSub(a, b))

IcCall ==
  /\ pcIC = "call"
  /\ icRet' = i64_cmp(va, vb)
  /\ pcIC' = "returned"
  /\ UNCHANGED <<va, vb>>
  /\ Frame("ic")

IcNext == IcCall

(* C14: i64_cmp returns a value > 0 when *a > *b, < 0 when *a < *b and 0   *)
(* exactly when *a = *b, for every pair of int64_t values, also those      *)
(* whose difference does not fit an int.                                   *)
C14_I64CmpSign ==
  pcIC = "returned" =>
    /\ icRet > 0 <=> WideLess(vb, va)
    /\ icRet < 0 <=> WideLess(va, vb)
    /\ icRet = 0 <=> va = vb

(* The same, for pairs whose difference fits an int. *)
I64CmpSignOfNearValues ==
  (pcIC = "returned" /\ WideSub(va, vb)[1] \in -2 .. 1)
  => /\ icRet > 0 <=> WideLess(vb, va)
     /\ icRet < 0 <=> WideLess(va, vb)
     /\ icRet = 0 <=> va = vb

----------------------------------------------------------------------------
(* snarf_graph (lines 189-267) with bs64 and bs64_n (lines 136-154), in    *)
(* the build without __MTA__.  A 64-bit word is the tuple of its 8 bytes,  *)
(* most significant first.                                                 *)

WordOf(v) == <<0, 0, 0, 0, 0, 0, 0, v>>

(* Line 195: 0x1234ABCD. *)
endian_check == <<0, 0, 0, 0, 18, 52, 171, 205>>

(* Line 140: x = (x >> 32) | (x << 32). *)
SwapHalves(w) == <<w[5], w[6], w[7], w[8], w[1], w[2], w[3], w[4]>>

(* Lines 141-142: the 16-bit halves of each 32-bit half change places. *)
SwapShorts(w) == <<w[3], w[4], w[1], w[2], w[7], w[8], w[5], w[6]>>

(* Lines 143-144: the bytes of each 16-bit part change places. *)
SwapBytes(w) == <<w[2], w[1], w[4], w[3], w[6], w[5], w[8], w[7]>>

bs64(xin) == SwapBytes(SwapShorts(SwapHalves(xin)))

bs64_n(len, d) == [j \in DOMAIN d |-> IF j < len THEN bs64(d[j]) ELSE d[j]]

(* The value of a word below 2^24, as an integer. *)
ValueOf(w) == (w[6] * 256 + w[7]) * 256 + w[8]

SgCounts == 0 .. 2

(* A file of len words written on a machine of this byte order, or of the  *)
(* other one: the check word, nv, ne and the rest.                         *)
FileOf(len, v, e, foreign) ==
  LET native == [j \in 0 .. len - 1 |->
                   CASE j = 0 -> endian_check
                     [] j = 1 -> WordOf(v)
                     [] j = 2 -> WordOf(e)
                     [] OTHER -> WordOf(j)]
  IN IF foreign THEN bs64_n(len, native) ELSE native

SgInit ==
  /\ \E len \in 3 .. MaxWords, v \in SgCounts, e \in SgCounts,
        foreign \in BOOLEAN :
       sgFile = FileOf(len, v, e, foreign)
  /\ sgTail \in {0, 3}
  /\ sz = 0
  /\ mem = <<>>
  /\ sgNv = 0
  /\ sgNe = 0
  /\ sgViews = <<>>
  /\ pcSG = "stat"
  /\ OthersIdle("sg")

(* The file size in bytes. *)
FileBytes == 8 * Cardinality(DOMAIN sgFile) + sgTail

(* Lines 203-207: stat succeeds. *)
SgStat ==
  /\ pcSG = "stat"
  /\ sz' = FileBytes
  /\ pcSG' = "multiple"
  /\ UNCHANGED <<sgFile, sgTail, mem, sgNv, sgNe, sgViews>>
  /\ Frame("sg")

(* Lines 203-206, 226-234: stat, open or read fails. *)
SgIoError ==
  /\ pcSG \in {"stat", "read"}
  /\ pcSG' = "abort"
  /\ UNCHANGED <<sgFile, sgTail, sz, mem, sgNv, sgNe, sgViews>>
  /\ Frame("sg")

(* Lines 216-222: the size is a multiple of sizeof (int64_t), or abort. *)
SgMultiple ==
  /\ pcSG = "multiple"
  /\ pcSG' = IF sz % 8 # 0 THEN "abort" ELSE "read"
  /\ UNCHANGED <<sgFile, sgTail, sz, mem, sgNv, sgNe, sgViews>>
  /\ Frame("sg")

(* Lines 224-236: the file is read into mem. *)
SgRead ==
  /\ pcSG = "read"
  /\ mem' = sgFile
  /\ pcSG' = "header"
  /\ UNCHANGED <<sgFile, sgTail, sz, sgNv, sgNe, sgViews>>
  /\ Frame("sg")

(* Lines 244-248: byte-order correction, then nv and ne. *)
SgHeader ==
  /\ pcSG = "header"
  /\ mem' = IF endian_check # mem[0] THEN bs64_n(sz \div 8, mem) ELSE mem
  /\ sgNv' = ValueOf(mem'[1])
  /\ sgNe' = ValueOf(mem'[2])
  /\ pcSG' = "views"
  /\ UNCHANGED <<sgFile, sgTail, sz, sgViews>>
  /\ Frame("sg")

(* Lines 250-261 are inside #if 0: no comparison of sz with the header is  *)
(* compiled.  Lines 263-266: the views.                                    *)
SgReturn ==
  /\ pcSG = "views"
  /\ sgViews' = [off |-> 3, ind |-> 3 + sgNv + 1, weight |-> 3 + sgNv + 1 + sgNe]
  /\ pcSG' = "returned"
  /\ UNCHANGED <<sgFile, sgTail, sz, mem, sgNv, sgNe>>
  /\ Frame("sg")

SgNext ==
  \/ SgStat
  \/ SgIoError
  \/ SgMultiple
  \/ SgRead
  \/ SgHeader
  \/ SgReturn

(* The header of the file, byte order corrected. *)
SgHeaderOf(j) ==
  ValueOf(IF sgFile[0] = endian_check THEN sgFile[j] ELSE bs64(sgFile[j]))

SgSizeMatches ==
  FileBytes = 8 * (3 + (SgHeaderOf(1) + 1) + 2 * SgHeaderOf(2))

(* C15: snarf_graph ends in the abort outcome whenever the size of the     *)
(* file in 64-bit words differs from 3 + (nv+1) + 2*ne, nv and ne being    *)
(* the second and third word after byte-order correction; it returns the   *)
(* off/ind/weight views only when the size matches.                        *)
C15_SnarfSizeCheck == pcSG = "returned" => SgSizeMatches

(* What the code does check: a file whose size is not a whole number of    *)
(* words is never returned.                                                *)
SnarfWholeWords == pcSG = "returned" => sgTail = 0

(* The header is read in either byte order. *)
SnarfHeaderRead ==
  pcSG \in {"views", "returned"} =>
    sgNv = SgHeaderOf(1) /\ sgNe = SgHeaderOf(2)

----------------------------------------------------------------------------
(* The random edge generator: main (main.cpp, lines 28-145).               *)

GenBatchSizes == {0, 1, 2}
GenNvs == {1, 2}

(* Lines 32-77: the options are read; -y is absent (-1) or gives a count.  *)
GenInit ==
  /\ batch_size \in GenBatchSizes
  /\ num_batches \in -1 .. MaxBatches
  /\ genNv \in GenNvs
  /\ batch_num = 0
  /\ line = 0
  /\ sent = <<>>
  /\ pcGen = "options"
  /\ OthersIdle("gen")

(* Lines 70-75: -h or an unknown option, usage and exit (0). *)
GenUsage ==
  /\ pcGen = "options"
  /\ pcGen' = "exit_success"
  /\ UNCHANGED <<batch_size, num_batches, genNv, batch_num, line, sent>>
  /\ Frame("gen")

(* Lines 58-63, 82-87: the server name does not resolve, exit (-1). *)
GenUnresolved ==
  /\ pcGen = "options"
  /\ pcGen' = "exit_failure"
  /\ UNCHANGED <<batch_size, num_batches, genNv, batch_num, line, sent>>
  /\ Frame("gen")

(* Lines 79-105: the connection is made. *)
GenConnect ==
  /\ pcGen = "options"
  /\ pcGen' = "loop"
  /\ UNCHANGED <<batch_size, num_batches, genNv, batch_num, line, sent>>
  /\ Frame("gen")

(* Lines 108-111 and 137-140: a batch without actions. *)
StingerBatch(alive) ==
  [make_undirected |-> TRUE, type |-> "NUMBERS_ONLY", keep_alive |-> alive,
   insertions |-> <<>>, deletions |-> <<>>]

(* Lines 117-121: insertion e of the batch; rand () % nv is any vertex.    *)
Insertions ==
  {ins \in [1 .. batch_size ->
              [source : 0 .. genNv - 1, destination : 0 .. genNv - 1,
               weight : {1}, time : line + 1 .. line + batch_size]] :
     \A e \in 1 .. batch_size : ins[e].time = line + e}

(* Lines 108-127: one batch is built and sent. *)
GenSend ==
  /\ pcGen = "loop"
  /\ Len(sent) < MaxSent
  /\ \E ins \in Insertions :
       sent' = Append(sent, [StingerBatch(TRUE) EXCEPT !.insertions = ins])
  /\ line' = line + batch_size
  /\ pcGen' = "check"
  /\ UNCHANGED <<batch_size, num_batches, genNv, batch_num>>
  /\ Frame("gen")

(* Line 129: the test that ends the loop. *)
LastBatch == (batch_num >= num_batches) /\ (num_batches # -1)

(* Lines 129-134: leave the loop, or batch_num++ in the else branch and    *)
(* batch_num++ again after it.                                             *)
GenCheck ==
  /\ pcGen = "check"
  /\ IF LastBatch
       THEN pcGen' = "final" /\ batch_num' = batch_num
       ELSE pcGen' = "loop" /\ batch_num' = (batch_num + 1) + 1
  /\ UNCHANGED <<batch_size, num_batches, genNv, line, sent>>
  /\ Frame("gen")

(* Line 140: the terminal batch has keep_alive = false. *)
TerminalAlive == TRUE

TerminalKeepAlive == FALSE

(* Lines 137-144: the terminal batch is sent and main returns. *)
GenFinal ==
  /\ pcGen = "final"
  /\ sent' = Append(sent, StingerBatch(TerminalKeepAlive))
  /\ pcGen' = "returned"
  /\ UNCHANGED <<batch_size, num_batches, genNv, batch_num, line>>
  /\ Frame("gen")

GenNext ==
  \/ GenUsage
  \/ GenUnresolved
  \/ GenConnect
  \/ GenSend
  \/ GenCheck
  \/ GenFinal

GeneratedInsertions ==
  \A i \in 1 .. Len(sent) :
    sent[i].keep_alive =>
      /\ Len(sent[i].insertions) = batch_size
      /\ \A e \in 1 .. batch_size :
           LET ins == sent[i].insertions[e]
           IN /\ ins.source \in 0 .. genNv - 1
              /\ ins.destination \in 0 .. genNv - 1
              /\ ins.weight = 1
              /\ ins.time = (i - 1) * batch_size + e

(* C17: given a batch count N >= 0, main sends exactly N batches of        *)
(* batch_size random insertions (vertices in 0..nv-1, weight 1, times      *)
(* strictly increasing over the run), then the terminal batch, and ends.   *)
C17_BatchCount ==
  (pcGen = "returned" /\ num_batches >= 0) =>
    /\ Len(sent) = num_batches + 1
    /\ GeneratedInsertions

(* What the loop does send for N >= 0: one batch, and one more for every   *)
(* two of N (N rounded up to even).                                        *)
BatchCountSent ==
  (pcGen = "returned" /\ num_batches >= 0) =>
    Len(sent) = 1 + (num_batches + 1) \div 2 + 1

----------------------------------------------------------------------------
(* parse_args (lines 56-108).  The arguments are words of a small set; the *)
(* loop test, the loop body and its end are separate steps.                *)

BatchOptions == {"--batch", "-b"}
NbatchOptions == {"--num-batches", "-n"}
HelpOptions == {"--help", "-h", "-?"}
DashDash == "--"

(* The words the arguments are drawn from: the options, an option the code *)
(* does not know, numbers and a file name.                                 *)
Words ==
  {"--batch", "-b", "--num-batches", "-n", "-h", DashDash, "-x", "-3", "7",
   "g.bin"}

(* argv[k][0] == '-' *)
StartsWithDash(w) ==
  w \in BatchOptions \cup NbatchOptions \cup HelpOptions
          \cup {DashDash, "-x", "-3"}

(* strtol (w, NULL, 10): the leading number of w, 0 if there is none. *)
strtol(w) ==
  CASE w = "7" -> 7
    [] w = "-3" -> -3
    [] OTHER -> 0

(* argv[i] of the code. *)
Arg(i) == argv[i + 1]

(* Line 57: the call; argv[0] is the program name. *)
PaInit ==
  /\ argc \in 1 .. MaxArgs + 1
  /\ argv \in [1 .. argc -> Words \cup {"prog"}]
  /\ argv[1] = "prog"
  /\ \A i \in 2 .. argc : argv[i] \in Words
  /\ paK = 1
  /\ seen_batch = 0
  /\ seen_nbatch = 0
  /\ paBatchSize = <<>>
  /\ paNbatch = <<>>
  /\ initial_graph_name = <<>>
  /\ action_stream_name = <<>>
  /\ pcPA = "entry"
  /\ OthersIdle("pa")

(* Lines 62-63: no argument, return. *)
PaEntry ==
  /\ pcPA = "entry"
  /\ pcPA' = IF paK >= argc THEN "return" ELSE "test"
  /\ UNCHANGED <<argc, argv, paK, seen_batch, seen_nbatch, paBatchSize, paNbatch, initial_graph_name, action_stream_name>>
  /\ Frame("pa")

(* Line 64: the loop test. *)
PaTest ==
  /\ pcPA = "test"
  /\ pcPA' = IF paK < argc /\ StartsWithDash(Arg(paK)) THEN "body" ELSE "names"
  /\ UNCHANGED <<argc, argv, paK, seen_batch, seen_nbatch, paBatchSize, paNbatch, initial_graph_name, action_stream_name>>
  /\ Frame("pa")

(* Lines 65-75: --batch or -b.  The test of line 73 compares the pointer   *)
(* batch_size, which is not null, with 0 and is never true.                *)
PaBatch ==
  /\ pcPA = "body"
  /\ Arg(paK) \in BatchOptions
  /\ IF seen_batch = 1
       THEN /\ pcPA' = "exit_failure"
            /\ UNCHANGED <<paK, seen_batch, paBatchSize>>
       ELSE /\ seen_batch' = 1
            /\ IF paK + 1 >= argc
                 THEN /\ paK' = paK + 1
                      /\ pcPA' = "exit_failure"
                      /\ UNCHANGED paBatchSize
                 ELSE /\ paBatchSize' = <<strtol(Arg(paK + 1))>>
                      /\ paK' = paK + 2
                      /\ pcPA' = "end_of_body"
  /\ UNCHANGED <<argc, argv, seen_nbatch, paNbatch, initial_graph_name, action_stream_name>>
  /\ Frame("pa")

(* Lines 76-87: --num-batches or -n; line 85 compares the pointer nbatch.  *)
PaNbatch ==
  /\ pcPA = "body"
  /\ Arg(paK) \notin BatchOptions
  /\ Arg(paK) \in NbatchOptions
  /\ IF seen_nbatch = 1
       THEN /\ pcPA' = "exit_failure"
            /\ UNCHANGED <<paK, seen_nbatch, paNbatch>>
       ELSE /\ seen_nbatch' = 1
            /\ IF paK + 1 >= argc
                 THEN /\ paK' = paK + 1
                      /\ pcPA' = "exit_failure"
                      /\ UNCHANGED paNbatch
                 ELSE /\ paNbatch' = <<strtol(Arg(paK + 1))>>
                      /\ paK' = paK + 2
                      /\ pcPA' = "end_of_body"
  /\ UNCHANGED <<argc, argv, seen_batch, paBatchSize, initial_graph_name, action_stream_name>>
  /\ Frame("pa")

(* Lines 88-92: --help, -h or -?: usage on stdout, exit (EXIT_SUCCESS). *)
PaHelp ==
  /\ pcPA = "body"
  /\ Arg(paK) \notin BatchOptions \cup NbatchOptions
  /\ Arg(paK) \in HelpOptions
  /\ pcPA' = "exit_success"
  /\ UNCHANGED <<argc, argv, paK, seen_batch, seen_nbatch, paBatchSize, paNbatch, initial_graph_name, action_stream_name>>
  /\ Frame("pa")

(* Lines 93-96: --, the end of the options. *)
PaDashDash ==
  /\ pcPA = "body"
  /\ Arg(paK) = DashDash
  /\ paK' = paK + 1
  /\ pcPA' = "names"
  /\ UNCHANGED <<argc, argv, seen_batch, seen_nbatch, paBatchSize, paNbatch, initial_graph_name, action_stream_name>>
  /\ Frame("pa")

(* Lines 65-97: the if chain has no final else, so for any other word the  *)
(* body does nothing and control is at its end.                            *)
PaNoBranch ==
  /\ pcPA = "body"
  /\ Arg(paK) \notin BatchOptions \cup NbatchOptions \cup HelpOptions \cup {DashDash}
  /\ pcPA' = "end_of_body"
  /\ UNCHANGED <<argc, argv, paK, seen_batch, seen_nbatch, paBatchSize, paNbatch, initial_graph_name, action_stream_name>>
  /\ Frame("pa")

(* Line 97: the end of the loop body, back to the test of line 64. *)
PaLoopBack ==
  /\ pcPA = "end_of_body"
  /\ pcPA' = "test"
  /\ UNCHANGED <<argc, argv, paK, seen_batch, seen_nbatch, paBatchSize, paNbatch, initial_graph_name, action_stream_name>>
  /\ Frame("pa")

(* Lines 98-102: the two file names, then return. *)
PaNames ==
  /\ pcPA = "names"
  /\ initial_graph_name' = IF paK < argc THEN <<Arg(paK)>> ELSE <<>>
  /\ action_stream_name' = IF paK + 1 < argc THEN <<Arg(paK + 1)>> ELSE <<>>
  /\ paK' = IF paK + 1 < argc THEN paK + 2 ELSE IF paK < argc THEN paK + 1 ELSE paK
  /\ pcPA' = "return"
  /\ UNCHANGED <<argc, argv, seen_batch, seen_nbatch, paBatchSize, paNbatch>>
  /\ Frame("pa")

PaNext ==
  \/ PaEntry
  \/ PaTest
  \/ PaBatch
  \/ PaNbatch
  \/ PaHelp
  \/ PaDashDash
  \/ PaNoBranch
  \/ PaLoopBack
  \/ PaNames

PaEnded == pcPA \in {"return", "exit_success", "exit_failure"}

(* C20: parse_args terminates for every argument vector: an iteration of   *)
(* the option loop consumes an argument, leaves the loop or exits, so an   *)
(* argument that starts with '-' and is no known option is not examined    *)
(* again and again, and the call ends.                                     *)
C20_ParseArgsTerminates ==
  /\ [][pcPA = "body" => (paK' > paK \/ pcPA' # "end_of_body")]_vars
  /\ <>PaEnded

(* An iteration on a known option consumes an argument, leaves the loop or *)
(* exits.                                                                  *)
KnownOptionsAdvance ==
  [][(pcPA = "body" /\ ~ENABLED PaNoBranch) => (paK' > paK \/ pcPA' # "end_of_body")]_vars

(* A repeated --batch or --num-batches, or one that is the last argument,  *)
(* leads to the failure exit.                                              *)
RepeatedOrValueless ==
  [][(pcPA = "body" /\ Arg(paK) \in BatchOptions \cup NbatchOptions
        /\ \/ paK + 1 >= argc
           \/ Arg(paK) \in BatchOptions /\ seen_batch = 1
           \/ Arg(paK) \in NbatchOptions /\ seen_nbatch = 1)
      => pcPA' = "exit_failure"]_vars

(* A call that meets no unknown word before the end of its options ends.   *)
NoUnknownOption ==
  (\A i \in 2 .. argc : argv[i] \notin {"-x", "-3"}) => <>PaEnded

----------------------------------------------------------------------------
(* The specifications, one per kernel.                                     *)

SpecPrefix == PsInit /\ [][PsNext]_vars

SpecRadix == RsInit /\ [][RsNext]_vars

SpecBucket == BsInit /\ [][BsNext]_vars

SpecEdgeList == ElInit /\ [][ElNext]_vars

SpecSortEdges == SeInit /\ [][SeNext]_vars

SpecCsr == CsrInit /\ [][CsrNext]_vars

SpecCounting == CntInit /\ [][CntNext]_vars

SpecFind == FsInit /\ [][FsNext]_vars

SpecFindFair == SpecFind /\ WF_vars(FsNext)

SpecI64Cmp == IcInit /\ [][IcNext]_vars

SpecSnarf == SgInit /\ [][SgNext]_vars

SpecGenerator == GenInit /\ [][GenNext]_vars

SpecSortEdgesFair == SpecSortEdges /\ WF_vars(SeNext)

SpecParseArgs == PaInit /\ [][PaNext]_vars

SpecParseArgsFair == SpecParseArgs /\ WF_vars(PaNext)

====
